---- MODULE Spec2Model ----
\* Remote data client (wandb_integration.py), its exception taxonomy
\* (exceptions.py) and the experiment clustering engine (clustering.py).
EXTENDS Integers, Naturals, Sequences, FiniteSets, TLC

\* ---------------------------------------------------------------------
\* Bounds of the model
\* ---------------------------------------------------------------------
\* longest run list the remote service returns for a project
MaxRuns == 2
\* longest run_ids list handed to compare_runs
MaxRunIds == 2
\* largest configured cluster count
MaxClusters == 2
\* most rows of a feature matrix handed to the engine directly
MaxSamples == 2
MaxLabels == 3
MaxComponents == 2
MaxResponse == 3
\* threads that share one limiter
MaxThreads == 2
\* calls of the wrapped function that are started in one behaviour
MaxStarted == 3
\* largest max_calls of a limiter
MaxMaxCalls == 2

\* ---------------------------------------------------------------------
\* Program constants
\* ---------------------------------------------------------------------
\* len(entity) > 100 / len(project) > 100
MaxNameLen == 100
\* stop_after_attempt(3)
MaxAttempts == 3
\* wait_exponential(multiplier=1, min=2, max=10)
WaitMultiplier == 1
WaitMin == 2
WaitMax == 10
\* limit: int = 100
DefaultLimit == 100
\* ExperimentCluster(n_clusters=3)
DefaultClusters == 3

\* ---------------------------------------------------------------------
\* Strings are sequences of one-character strings
\* ---------------------------------------------------------------------
\* Messages of the errors the remote service raises (character sequences).
MsgAuthenticationFailed ==
    <<"A", "u", "t", "h", "e", "n", "t", "i", "c", "a", "t", "i", "o", "n", " ", "f", "a", "i", "l", "e", "d">>
MsgUnauthorized ==
    <<"4", "0", "1", " ", "U", "N", "A", "U", "T", "H", "O", "R", "I", "Z", "E", "D">>
MsgRateLimitExceeded ==
    <<"R", "a", "t", "e", " ", "l", "i", "m", "i", "t", " ", "e", "x", "c", "e", "e", "d", "e", "d">>
MsgRateLimitUpper ==
    <<"R", "A", "T", "E", " ", "L", "I", "M", "I", "T">>
MsgProjectNotFound ==
    <<"P", "r", "o", "j", "e", "c", "t", " ", "n", "o", "t", " ", "f", "o", "u", "n", "d">>
MsgDoesNotExist ==
    <<"D", "o", "e", "s", " ", "N", "o", "t", " ", "E", "x", "i", "s", "t">>
MsgNetworkError ==
    <<"N", "e", "t", "w", "o", "r", "k", " ", "e", "r", "r", "o", "r">>
MsgServerError ==
    <<"5", "0", "0">>
MsgUnauthorizedRateLimit ==
    <<"u", "n", "a", "u", "t", "h", "o", "r", "i", "z", "e", "d", ":", " ", "R", "a", "t", "e", " ", "L", "i", "m", "i", "t">>
MsgNotFoundRateLimit ==
    <<"N", "o", "t", " ", "F", "o", "u", "n", "d", ";", " ", "r", "a", "t", "e", " ", "l", "i", "m", "i", "t">>
MsgRateLimitSplit ==
    <<"r", "a", "t", "e", "-", "l", "i", "m", "i", "t">>

\* Substrings the classification looks for.
PatAuthentication ==
    <<"a", "u", "t", "h", "e", "n", "t", "i", "c", "a", "t", "i", "o", "n">>
PatUnauthorized ==
    <<"u", "n", "a", "u", "t", "h", "o", "r", "i", "z", "e", "d">>
PatRateLimit ==
    <<"r", "a", "t", "e", " ", "l", "i", "m", "i", "t">>
PatNotFound ==
    <<"n", "o", "t", " ", "f", "o", "u", "n", "d">>
PatDoesNotExist ==
    <<"d", "o", "e", "s", " ", "n", "o", "t", " ", "e", "x", "i", "s", "t">>

\* Literal parts of the messages the client formats.
FmtAuthenticationFailed ==
    <<"A", "u", "t", "h", "e", "n", "t", "i", "c", "a", "t", "i", "o", "n", " ", "f", "a", "i", "l", "e", "d", ":", " ">>
FmtRateLimitExceeded ==
    <<"R", "a", "t", "e", " ", "l", "i", "m", "i", "t", " ", "e", "x", "c", "e", "e", "d", "e", "d", ":", " ">>
FmtErrorFetchingProjects ==
    <<"E", "r", "r", "o", "r", " ", "f", "e", "t", "c", "h", "i", "n", "g", " ", "p", "r", "o", "j", "e", "c", "t", "s", ":", " ">>
FmtErrorFetchingRuns ==
    <<"E", "r", "r", "o", "r", " ", "f", "e", "t", "c", "h", "i", "n", "g", " ", "r", "u", "n", "s", ":", " ">>
FmtProject ==
    <<"P", "r", "o", "j", "e", "c", "t", " ">>
FmtNotFound ==
    <<" ", "n", "o", "t", " ", "f", "o", "u", "n", "d">>
FmtEntityEmpty ==
    <<"E", "n", "t", "i", "t", "y", " ", "n", "a", "m", "e", " ", "c", "a", "n", "n", "o", "t", " ", "b", "e", " ", "e", "m", "p", "t", "y">>
FmtEntityTooLong ==
    <<"E", "n", "t", "i", "t", "y", " ", "n", "a", "m", "e", " ", "t", "o", "o", " ", "l", "o", "n", "g", " ", "(", "m", "a", "x", " ", "1", "0", "0", " ", "c", "h", "a", "r", "a", "c", "t", "e", "r", "s", ")">>
FmtProjectEmpty ==
    <<"P", "r", "o", "j", "e", "c", "t", " ", "n", "a", "m", "e", " ", "c", "a", "n", "n", "o", "t", " ", "b", "e", " ", "e", "m", "p", "t", "y">>
FmtProjectTooLong ==
    <<"P", "r", "o", "j", "e", "c", "t", " ", "n", "a", "m", "e", " ", "t", "o", "o", " ", "l", "o", "n", "g", " ", "(", "m", "a", "x", " ", "1", "0", "0", " ", "c", "h", "a", "r", "a", "c", "t", "e", "r", "s", ")">>
FmtNoRunIds ==
    <<"N", "o", " ", "r", "u", "n", " ", "I", "D", "s", " ", "p", "r", "o", "v", "i", "d", "e", "d", " ", "f", "o", "r", " ", "c", "o", "m", "p", "a", "r", "i", "s", "o", "n">>
FmtFailedToExtract ==
    <<"F", "a", "i", "l", "e", "d", " ", "t", "o", " ", "e", "x", "t", "r", "a", "c", "t", " ", "r", "u", "n", " ", "d", "a", "t", "a", ":", " ">>
MsgNoAttribute ==
    <<"n", "o", " ", "a", "t", "t", "r", "i", "b", "u", "t", "e">>

UpperChars ==
    <<"A", "B", "C", "D", "E", "F", "G", "H", "I", "J", "K", "L", "M", "N", "O", "P", "Q", "R", "S", "T", "U", "V", "W", "X", "Y", "Z">>
LowerChars ==
    <<"a", "b", "c", "d", "e", "f", "g", "h", "i", "j", "k", "l", "m", "n", "o", "p", "q", "r", "s", "t", "u", "v", "w", "x", "y", "z">>

Max(a, b) == IF a >= b THEN a ELSE b
Min(a, b) == IF a <= b THEN a ELSE b

RECURSIVE Pow2(_)
Pow2(n) == IF n = 0 THEN 1 ELSE 2 * Pow2(n - 1)

\* one character of str.lower()
LowerChar(c) ==
    IF \E i \in 1..Len(UpperChars) : UpperChars[i] = c
    THEN LowerChars[CHOOSE i \in 1..Len(UpperChars) : UpperChars[i] = c]
    ELSE c

\* str(e) used as it is, without lower()
LowerOmitted(s) == s

\* str.lower()
Lower(s) == [i \in 1..Len(s) |-> LowerChar(s[i])]

\* pat in s
Contains(s, pat) ==
    \E i \in 0..(Len(s) - Len(pat)) : SubSeq(s, i + 1, i + Len(pat)) = pat

Whitespace == {" ", "\t", "\n"}

\* str.strip()
RECURSIVE LStrip(_)
LStrip(s) ==
    IF s # <<>> /\ Head(s) \in Whitespace THEN LStrip(Tail(s)) ELSE s
RECURSIVE RStrip(_)
RStrip(s) ==
    IF s # <<>> /\ s[Len(s)] \in Whitespace
    THEN RStrip(SubSeq(s, 1, Len(s) - 1)) ELSE s
Strip(s) == RStrip(LStrip(s))

\* a name of n letters
Rep(n) == [i \in 1..n |-> "a"]

\* ---------------------------------------------------------------------
\* Exceptions (exceptions.py and the Python built-ins the client meets)
\* ---------------------------------------------------------------------
QueryAIExceptions ==
    {"WandBConnectionError", "WandBAuthenticationError",
     "WandBProjectNotFoundError", "WandBRateLimitError", "ValidationError"}

\* the classes an exception of class exc is an instance of
Bases(exc) ==
    CASE exc = "ConnectionResetError" ->
            {"ConnectionResetError", "ConnectionError", "OSError", "Exception"}
      [] exc = "ConnectionError" -> {"ConnectionError", "OSError", "Exception"}
      [] exc = "TimeoutError" -> {"TimeoutError", "OSError", "Exception"}
      [] exc = "OSError" -> {"OSError", "Exception"}
      [] exc = "AttributeError" -> {"AttributeError", "Exception"}
      [] exc \in QueryAIExceptions -> {exc, "QueryAIException", "Exception"}
      [] OTHER -> {exc, "Exception"}

IsInstance(exc, classes) == Bases(exc) \cap classes # {}

\* the outcome of a call: a returned value or a raised exception
NoResult == [kind |-> "none", exc |-> "none", msg |-> <<>>, value |-> <<>>]
Return(v) == [kind |-> "return", exc |-> "none", msg |-> <<>>, value |-> v]
Raise(exc, msg) == [kind |-> "raise", exc |-> exc, msg |-> msg, value |-> <<>>]

\* ---------------------------------------------------------------------
\* Values, run handles
\* ---------------------------------------------------------------------
\* a Python value: its type and a code for its content
S(n) == [t |-> "str", v |-> n]
I(n) == [t |-> "int", v |-> n]
F(n) == [t |-> "float", v |-> n]
B(n) == [t |-> "bool", v |-> n]
Obj(n) == [t |-> "obj", v |-> n]
None == [t |-> "none", v |-> 0]

EmptyDict == [k \in {} |-> None]

\* dictionary keys are sequences of name parts
KeyRuntime == <<"_", "runtime">>
KeyStep == <<"_", "step">>

\* the attributes extract_run_data reads inside its try block
TryAttrs ==
    {"summary", "config", "id", "name", "state", "created_at", "updated_at",
     "user", "tags", "notes", "url"}

RunGood1 ==
    [id |-> S(1), name |-> S(11), state |-> S(21), created_at |-> S(31),
     updated_at |-> S(41),
     summary |-> (<<"accuracy">> :> F(9500)) @@ (KeyRuntime :> I(3600))
                 @@ (<<"history">> :> Obj(1)),
     config |-> (<<"learning_rate">> :> F(100)) @@ (<<"optimizer">> :> S(7))
                @@ (<<"layers">> :> Obj(2)),
     user |-> S(51), has_commit |-> TRUE, commit |-> S(61),
     tags |-> <<S(1), S(2)>>, notes |-> S(71), url |-> S(81),
     unreadable |-> {}]

RunGood2 ==
    [id |-> S(2), name |-> S(12), state |-> S(22), created_at |-> S(32),
     updated_at |-> S(42),
     summary |-> (<<"loss">> :> F(500)) @@ (KeyStep :> I(9)),
     config |-> EmptyDict,
     user |-> None, has_commit |-> FALSE, commit |-> None,
     tags |-> <<>>, notes |-> S(72), url |-> S(82),
     unreadable |-> {}]

\* a malformed handle whose id cannot be read
RunBadId == [RunGood1 EXCEPT !.name = S(13), !.unreadable = {"id"}]

\* a malformed handle whose summary cannot be read
RunBadSummary == [RunGood2 EXCEPT !.id = S(4), !.name = S(14),
                                  !.unreadable = {"summary"}]

\* a handle whose summary has numeric metrics named like metadata columns
RunShadow == [RunGood2 EXCEPT !.id = S(5), !.name = S(15),
                              !.summary = (<<"id">> :> I(99)) @@ (<<"runtime">> :> F(77))]

Handles == {RunGood1, RunGood2, RunBadId, RunBadSummary, RunShadow}

\* every attribute of the handle can be read
WellFormed(run) == run.unreadable = {}

RECURSIVE SeqsUpTo(_, _)
SeqsUpTo(S_, n) ==
    IF n = 0 THEN {<<>>}
    ELSE LET shorter == SeqsUpTo(S_, n - 1)
         IN shorter \cup {Append(s, x) : s \in {q \in shorter : Len(q) = n - 1}, x \in S_}

\* ---------------------------------------------------------------------
\* Validation
\* ---------------------------------------------------------------------
\* 'if not entity' alone, without the strip() test
ValidateEntityNoStrip(e) ==
    IF e = <<>>
    THEN Raise("ValidationError", FmtEntityEmpty)
    ELSE IF Len(e) > MaxNameLen
    THEN Raise("ValidationError", FmtEntityTooLong)
    ELSE Return(None)

ValidateEntity(e) ==
    IF e = <<>> \/ Strip(e) = <<>>
    THEN Raise("ValidationError", FmtEntityEmpty)
    ELSE IF Len(e) > MaxNameLen
    THEN Raise("ValidationError", FmtEntityTooLong)
    ELSE Return(None)

ValidateProject(p) ==
    IF p = <<>> \/ Strip(p) = <<>>
    THEN Raise("ValidationError", FmtProjectEmpty)
    ELSE IF Len(p) > MaxNameLen
    THEN Raise("ValidationError", FmtProjectTooLong)
    ELSE Return(None)

\* ---------------------------------------------------------------------
\* The bodies of the two listing operations, given what the remote call did
\* ---------------------------------------------------------------------
TransientClasses == {"ConnectionError", "TimeoutError"}

\* the rate-limit test placed before the authentication test
ClassifyProjectsErrorRateFirst(o) ==
    LET error_msg == Lower(o.msg)
    IN IF Contains(error_msg, PatRateLimit)
       THEN Raise("WandBRateLimitError", FmtRateLimitExceeded \o o.msg)
       ELSE IF Contains(error_msg, PatAuthentication) \/ Contains(error_msg, PatUnauthorized)
       THEN Raise("WandBAuthenticationError", FmtAuthenticationFailed \o o.msg)
       ELSE Raise("WandBConnectionError", FmtErrorFetchingProjects \o o.msg)

ClassifyProjectsError(o) ==
    LET error_msg == Lower(o.msg)
    IN IF Contains(error_msg, PatAuthentication) \/ Contains(error_msg, PatUnauthorized)
       THEN Raise("WandBAuthenticationError", FmtAuthenticationFailed \o o.msg)
       ELSE IF Contains(error_msg, PatRateLimit)
       THEN Raise("WandBRateLimitError", FmtRateLimitExceeded \o o.msg)
       ELSE Raise("WandBConnectionError", FmtErrorFetchingProjects \o o.msg)

GetProjectsBody(e, o) ==
    IF o.kind = "return" THEN Return(o.value)
    ELSE IF IsInstance(o.exc, TransientClasses) THEN o
    ELSE ClassifyProjectsError(o)

\* the authentication branch of get_projects copied into get_runs
ClassifyRunsErrorWithAuth(e, p, o) ==
    LET error_msg == Lower(o.msg)
    IN IF Contains(error_msg, PatNotFound) \/ Contains(error_msg, PatDoesNotExist)
       THEN Raise("WandBProjectNotFoundError",
                  FmtProject \o e \o <<"/">> \o p \o FmtNotFound)
       ELSE IF Contains(error_msg, PatAuthentication) \/ Contains(error_msg, PatUnauthorized)
       THEN Raise("WandBAuthenticationError", FmtAuthenticationFailed \o o.msg)
       ELSE IF Contains(error_msg, PatRateLimit)
       THEN Raise("WandBRateLimitError", FmtRateLimitExceeded \o o.msg)
       ELSE Raise("WandBConnectionError", FmtErrorFetchingRuns \o o.msg)

ClassifyRunsError(e, p, o) ==
    LET error_msg == Lower(o.msg)
    IN IF Contains(error_msg, PatNotFound) \/ Contains(error_msg, PatDoesNotExist)
       THEN Raise("WandBProjectNotFoundError",
                  FmtProject \o e \o <<"/">> \o p \o FmtNotFound)
       ELSE IF Contains(error_msg, PatRateLimit)
       THEN Raise("WandBRateLimitError", FmtRateLimitExceeded \o o.msg)
       ELSE Raise("WandBConnectionError", FmtErrorFetchingRuns \o o.msg)

\* get_runs without its 'except (ConnectionError, TimeoutError): raise' clause
GetRunsBodyNoReraise(e, p, o) ==
    IF o.kind = "return" THEN Return(o.value)
    ELSE ClassifyRunsError(e, p, o)

GetRunsBody(e, p, o) ==
    IF o.kind = "return" THEN Return(o.value)
    ELSE IF IsInstance(o.exc, TransientClasses) THEN o
    ELSE ClassifyRunsError(e, p, o)

\* one execution of the decorated function: validation, then the remote call
ListingOps == {"get_projects", "get_runs", "get_runs_dataframe"}

ValidateArgs(o_, e, p) ==
    IF o_ = "get_projects" THEN ValidateEntity(e)
    ELSE IF ValidateEntity(e).kind = "raise" THEN ValidateEntity(e)
    ELSE ValidateProject(p)

\* api.runs(path, per_page=limit): the pages, of per_page handles each, in
\* which the service hands out the runs of the project
RECURSIVE Paginate(_, _)
Paginate(all, per_page) ==
    IF all = <<>> THEN <<>>
    ELSE IF Len(all) <= per_page THEN <<all>>
    ELSE <<SubSeq(all, 1, per_page)>>
         \o Paginate(SubSeq(all, per_page + 1, Len(all)), per_page)

\* list(runs): iterating the paginator loads page after page until none is left
RECURSIVE ListOf(_)
ListOf(pages) == IF pages = <<>> THEN <<>> ELSE Head(pages) \o ListOf(Tail(pages))

\* what the try block of get_runs has in hand
ApiRuns(o, per_page) ==
    IF o.kind = "return" THEN Return(ListOf(Paginate(o.value, per_page))) ELSE o

Body(o_, e, p, l, o) ==
    IF o_ = "get_projects" THEN GetProjectsBody(e, o)
    ELSE GetRunsBody(e, p, ApiRuns(o, l))

\* ---------------------------------------------------------------------
\* The retry policy of the decorators
\* ---------------------------------------------------------------------
\* a retry condition that takes every failure of the body
RetryIfAnyError(r) == r.kind = "raise" /\ r.exc # "ValidationError"
\* a retry condition that also takes the classified connection failure
RetryIfConnection(r) ==
    r.kind = "raise" /\ IsInstance(r.exc, TransientClasses \cup {"WandBConnectionError"})
\* retry_if_exception_type((ConnectionError, TimeoutError))
RetryIf(r) == r.kind = "raise" /\ IsInstance(r.exc, TransientClasses)
\* a stop condition that allows one attempt more
StopAfterAttemptLate(n) == n > MaxAttempts
\* stop_after_attempt(3)
StopAfterAttempt(n) == n >= MaxAttempts
\* wait_exponential(multiplier=1, min=2, max=10)
WaitExponential(n) == Max(Max(0, WaitMin), Min(WaitMultiplier * Pow2(n - 1), WaitMax))

\* ---------------------------------------------------------------------
\* Run tables (data frames) of the clustering engine
\* ---------------------------------------------------------------------
NaN == [t |-> "nan", v |-> 0]
\* a label as the centroid model returns it (32-bit integer)
I32(n) == [t |-> "int32", v |-> n]

ColCluster == <<"cluster">>

\* df[col].dtype
Dtype(tbl, col) ==
    LET ts == {tbl.rows[i][col].t : i \in 1..Len(tbl.rows)}
    IN IF ts = {"int"} THEN "int64"
       ELSE IF ts = {"int32"} THEN "int32"
       ELSE IF ts = {"bool"} THEN "bool"
       ELSE IF ts # {} /\ ts \subseteq {"int", "int32", "float", "nan"} THEN "float64"
       ELSE "object"

ColumnSet(tbl) == {tbl.columns[i] : i \in 1..Len(tbl.columns)}

\* df.empty
IsEmpty(tbl) == Len(tbl.columns) = 0 \/ Len(tbl.rows) = 0

\* df[col] = vals
SetColumn(tbl, col, vals) ==
    [columns |-> IF col \in ColumnSet(tbl) THEN tbl.columns
                 ELSE Append(tbl.columns, col),
     rows |-> [i \in 1..Len(tbl.rows) |-> (col :> vals[i]) @@ tbl.rows[i]]]

MkRow(id_, name_, runtime_, acc, loss_, opt) ==
    (<<"id">> :> id_) @@ (<<"name">> :> name_) @@ (<<"runtime">> :> runtime_)
    @@ (<<"accuracy">> :> acc) @@ (<<"loss">> :> loss_)
    @@ (<<"config_", "optimizer">> :> opt)

Project(row, cols) == [c \in {cols[i] : i \in 1..Len(cols)} |-> row[c]]

MkTable(cols, rows_) ==
    [columns |-> cols, rows |-> [i \in 1..Len(rows_) |-> Project(rows_[i], cols)]]

SampleRows ==
    <<MkRow(S(1), S(11), I(100), F(9500), F(500), S(7)),
      MkRow(S(2), S(12), I(200), F(8000), NaN, S(8)),
      MkRow(S(3), S(13), I(300), F(6000), F(7000), S(7))>>

TableEmpty == [columns |-> <<>>, rows |-> <<>>]
TableNoRows == MkTable(<<<<"id">>, <<"accuracy">>>>, <<>>)
TableMetaOnly ==
    MkTable(<<<<"id">>, <<"name">>, <<"runtime">>, <<"config_", "optimizer">>>>,
            SubSeq(SampleRows, 1, 2))
TableMetrics ==
    MkTable(<<<<"id">>, <<"name">>, <<"runtime">>, <<"accuracy">>, <<"loss">>>>,
            SampleRows)
TableOneRun ==
    MkTable(<<<<"id">>, <<"name">>, <<"accuracy">>>>, SubSeq(SampleRows, 1, 1))

Tables == {TableEmpty, TableNoRows, TableMetaOnly, TableMetrics, TableOneRun}

\* the metric_cols argument: None, or a list of column names
NoCols == [given |-> FALSE, cols |-> <<>>]
Cols(cs) == [given |-> TRUE, cols |-> cs]
MetricCols ==
    {NoCols, Cols(<<>>), Cols(<<<<"accuracy">>>>), Cols(<<<<"val_loss">>>>),
     Cols(<<<<"name">>>>)}

Methods == {"kmeans", "dbscan", "spectral"}

\* ---------------------------------------------------------------------
\* prepare_features, fit_predict, cluster_runs
\* ---------------------------------------------------------------------
ExcludeCols ==
    {<<"id">>, <<"name">>, <<"state">>, <<"created_at">>, <<"runtime">>,
     <<"commit">>, <<"tags">>}

\* np.array([])
EmptyFeatures == [n |-> 0, cols |-> <<>>, finite |-> TRUE]
Size(fm) == fm.n * Len(fm.cols)

\* the result of prepare_features and the feature_names it leaves behind
PrepareFeatures(names, tbl, metric_cols_) ==
    IF IsEmpty(tbl) THEN [res |-> Return(EmptyFeatures), feature_names |-> names]
    ELSE LET auto == SelectSeq(tbl.columns,
                        LAMBDA c : Dtype(tbl, c) \in {"float64", "int64"}
                                   /\ c \notin ExcludeCols)
             wanted == IF metric_cols_.given THEN metric_cols_.cols ELSE auto
             cols == SelectSeq(wanted, LAMBDA c : c \in ColumnSet(tbl))
         IN IF cols = <<>>
            THEN [res |-> Return(EmptyFeatures), feature_names |-> names]
            ELSE IF \E i \in 1..Len(cols) : Dtype(tbl, cols[i]) = "object"
            THEN [res |-> Raise("TypeError", <<>>), feature_names |-> cols]
            ELSE [res |-> Return([n |-> Len(tbl.rows), cols |-> cols, finite |-> TRUE]),
                  feature_names |-> cols]

\* the label sequences the fitted estimator may return for n rows
KMeansLabels(n, k) == {[i \in 1..n |-> I32(f[i])] : f \in [1..n -> 0..(k - 1)]}
DBSCANLabels(n) == {[i \in 1..n |-> I(f[i])] : f \in [1..n -> -1..((n \div 2) - 1)]}

\* self.model = <estimator>; labels = self.model.fit_predict(features): the
\* estimator is stored before it is fitted, and refuses a matrix holding NaN
Fit(kind_, k, features_, labels) ==
    IF features_.finite
    THEN {[res |-> Return(l),
           model |-> [kind |-> kind_, n_clusters |-> k, fit_on |-> features_]]
          : l \in labels}
    ELSE {[res |-> Raise("ValueError", <<>>),
           model |-> [kind |-> kind_, n_clusters |-> k, fit_on |-> EmptyFeatures]]}

\* fit_predict without its test for an empty matrix
FitPredictNoEmptyCheck(method_, n_clusters_, model_, features_) ==
    LET n_samples == features_.n
        k == Min(n_clusters_, n_samples)
    IN IF method_ = "kmeans"
       THEN Fit("KMeans", k, features_, KMeansLabels(n_samples, k))
       ELSE IF method_ = "dbscan"
       THEN Fit("DBSCAN", 0, features_, DBSCANLabels(n_samples))
       ELSE {[res |-> Raise("ValueError", <<>>), model |-> model_]}

\* fit_predict asking for self.n_clusters clusters whatever the sample count
FitPredictNoClamp(method_, n_clusters_, model_, features_) ==
    IF Size(features_) = 0 \/ features_.n = 0
    THEN {[res |-> Return(<<>>), model |-> model_]}
    ELSE IF method_ = "kmeans"
    THEN Fit("KMeans", n_clusters_, features_, KMeansLabels(features_.n, n_clusters_))
    ELSE IF method_ = "dbscan"
    THEN Fit("DBSCAN", 0, features_, DBSCANLabels(features_.n))
    ELSE {[res |-> Raise("ValueError", <<>>), model |-> model_]}

\* the outcomes of fit_predict: the labels returned and the model left behind
FitPredict(method_, n_clusters_, model_, features_) ==
    IF Size(features_) = 0 \/ features_.n = 0
    THEN {[res |-> Return(<<>>), model |-> model_]}
    ELSE LET n_samples == features_.n
             k == Min(n_clusters_, n_samples)
         IN IF method_ = "kmeans"
            THEN Fit("KMeans", k, features_, KMeansLabels(n_samples, k))
            ELSE IF method_ = "dbscan"
            THEN Fit("DBSCAN", 0, features_, DBSCANLabels(n_samples))
            ELSE {[res |-> Raise("ValueError", <<>>), model |-> model_]}

NoModel == [kind |-> "None", n_clusters |-> 0, fit_on |-> EmptyFeatures]

\* cluster_runs without its branch for an empty feature matrix: the empty
\* label sequence of fit_predict does not fit the rows of the copy
ClusterRunsOutcomesNoFallback(method_, n_clusters_, model_, names, tbl, metric_cols_) ==
    IF IsEmpty(tbl)
    THEN {[res |-> Return(tbl), same |-> TRUE, df |-> tbl,
           model |-> model_, feature_names |-> names]}
    ELSE LET pf == PrepareFeatures(names, tbl, metric_cols_)
         IN IF pf.res.kind = "raise"
            THEN {[res |-> pf.res, same |-> FALSE, df |-> tbl,
                   model |-> model_, feature_names |-> pf.feature_names]}
            ELSE {[res |-> IF fp.res.kind = "raise" THEN fp.res
                           ELSE IF Len(fp.res.value) # Len(tbl.rows)
                           THEN Raise("ValueError", <<>>)
                           ELSE Return(SetColumn(tbl, ColCluster, fp.res.value)),
                   same |-> FALSE, df |-> tbl,
                   model |-> fp.model, feature_names |-> pf.feature_names]
                  : fp \in FitPredict(method_, n_clusters_, model_, pf.res.value)}

\* the outcomes of cluster_runs on the table object tbl: the object afterwards,
\* the table returned, whether it is the same object, and the engine's state
ClusterRunsOutcomes(method_, n_clusters_, model_, names, tbl, metric_cols_) ==
    IF IsEmpty(tbl)
    THEN {[res |-> Return(tbl), same |-> TRUE, df |-> tbl,
           model |-> model_, feature_names |-> names]}
    ELSE LET pf == PrepareFeatures(names, tbl, metric_cols_)
         IN IF pf.res.kind = "raise"
            THEN {[res |-> pf.res, same |-> FALSE, df |-> tbl,
                   model |-> model_, feature_names |-> pf.feature_names]}
            ELSE IF Size(pf.res.value) = 0
            THEN LET marked == SetColumn(tbl, ColCluster,
                                         [i \in 1..Len(tbl.rows) |-> I(0)])
                 IN {[res |-> Return(marked), same |-> TRUE, df |-> marked,
                      model |-> model_, feature_names |-> pf.feature_names]}
            ELSE {[res |-> IF fp.res.kind = "raise" THEN fp.res
                           ELSE Return(SetColumn(tbl, ColCluster, fp.res.value)),
                   same |-> FALSE, df |-> tbl,
                   model |-> fp.model, feature_names |-> pf.feature_names]
                  : fp \in FitPredict(method_, n_clusters_, model_, pf.res.value)}

\* ---------------------------------------------------------------------
\* get_cluster_summary, get_cluster_characteristics, reduce_dimensions
\* ---------------------------------------------------------------------
\* float cells count ten-thousandths; integer cells count units
Scale == 10000
Num(cell) == IF cell.t \in {"int", "int32"} THEN cell.v * Scale ELSE cell.v

RECURSIVE SumSeq(_)
SumSeq(xs) == IF xs = <<>> THEN 0 ELSE xs[1] + SumSeq(Tail(xs))

RECURSIVE MinSeq(_)
MinSeq(xs) == IF Len(xs) = 1 THEN xs[1] ELSE Min(xs[1], MinSeq(Tail(xs)))

RECURSIVE MaxSeq(_)
MaxSeq(xs) == IF Len(xs) = 1 THEN xs[1] ELSE Max(xs[1], MaxSeq(Tail(xs)))

\* df['cluster'].unique(), as integers
ClusterIds(tbl) == {tbl.rows[i][ColCluster].v : i \in 1..Len(tbl.rows)}

\* df[df['cluster'] == cluster_id], in table order
ClusterRows(tbl, cluster_id) ==
    SelectSeq(tbl.rows, LAMBDA r : r[ColCluster].v = cluster_id)

\* select_dtypes(include=[np.number]).columns
NumericCols(tbl) ==
    {c \in ColumnSet(tbl) : Dtype(tbl, c) \in {"int64", "int32", "float64"}}

\* the values of a column that mean, std, min and max look at (NaN skipped)
Present(rows_, col) ==
    LET cells == SelectSeq([i \in 1..Len(rows_) |-> rows_[i][col]],
                           LAMBDA x : x.t # "nan")
    IN [i \in 1..Len(cells) |-> Num(cells[i])]

\* mean is the fraction num/den, NaN when den = 0; std is NaN below two
\* values, zero when they are all equal and positive otherwise
ColumnStats(rows_, col) ==
    LET xs == Present(rows_, col)
    IN [mean |-> [num |-> SumSeq(xs), den |-> Len(xs)],
        std |-> IF Len(xs) < 2 THEN "nan"
                ELSE IF \A i \in 1..Len(xs) : xs[i] = xs[1] THEN "zero"
                ELSE "positive",
        min |-> IF xs = <<>> THEN NaN ELSE F(MinSeq(xs)),
        max |-> IF xs = <<>> THEN NaN ELSE F(MaxSeq(xs))]

ClusterNames(tbl, rows_) ==
    IF <<"name">> \in ColumnSet(tbl)
    THEN [i \in 1..Len(rows_) |-> rows_[i][<<"name">>]]
    ELSE <<>>

\* get_cluster_summary whose runs and size are taken from the whole table
GetClusterSummaryAllRows(tbl) ==
    IF ColCluster \notin ColumnSet(tbl) \/ IsEmpty(tbl) THEN Return(EmptyDict)
    ELSE Return([cluster_id \in ClusterIds(tbl) |->
                   LET cluster_df == ClusterRows(tbl, cluster_id)
                   IN [size |-> Len(tbl.rows),
                       runs |-> ClusterNames(tbl, tbl.rows),
                       stats |-> [c \in NumericCols(tbl) \ {ColCluster} |->
                                     ColumnStats(cluster_df, c)]]])

\* get_cluster_summary without its test for an empty table
GetClusterSummaryNoGuard(tbl) ==
    IF ColCluster \notin ColumnSet(tbl) THEN Raise("KeyError", <<>>)
    ELSE Return([cluster_id \in ClusterIds(tbl) |->
                   LET cluster_df == ClusterRows(tbl, cluster_id)
                   IN [size |-> Len(cluster_df),
                       runs |-> ClusterNames(tbl, cluster_df),
                       stats |-> [c \in NumericCols(tbl) \ {ColCluster} |->
                                     ColumnStats(cluster_df, c)]]])

GetClusterSummary(tbl) ==
    IF ColCluster \notin ColumnSet(tbl) \/ IsEmpty(tbl) THEN Return(EmptyDict)
    ELSE Return([cluster_id \in ClusterIds(tbl) |->
                   LET cluster_df == ClusterRows(tbl, cluster_id)
                   IN [size |-> Len(cluster_df),
                       runs |-> ClusterNames(tbl, cluster_df),
                       stats |-> [c \in NumericCols(tbl) \ {ColCluster} |->
                                     ColumnStats(cluster_df, c)]]])

\* the thresholds of get_cluster_characteristics, in ten-thousandths
HighAccuracy == 9000
LowAccuracy == 7000
LowLoss == 1000
HighLoss == 5000
HighLearningRate == 100
LowLearningRate == 1

\* mean > thr and mean < thr; both are false of NaN
Above(mean, thr) == mean.den > 0 /\ mean.num > thr * mean.den
Below(mean, thr) == mean.den > 0 /\ mean.num < thr * mean.den

StrHighAccuracy == <<"H","i","g","h"," ","a","c","c","u","r","a","c","y">>
StrLowAccuracy == <<"L","o","w"," ","a","c","c","u","r","a","c","y">>
StrWellConverged == <<"W","e","l","l"," ","c","o","n","v","e","r","g","e","d">>
StrConvergenceIssues ==
    <<"C","o","n","v","e","r","g","e","n","c","e"," ","i","s","s","u","e","s">>
StrHighLearningRate ==
    <<"H","i","g","h"," ","l","e","a","r","n","i","n","g"," ","r","a","t","e">>
StrLowLearningRate ==
    <<"L","o","w"," ","l","e","a","r","n","i","n","g"," ","r","a","t","e">>
StrCluster == <<"C","l","u","s","t","e","r"," ">>
StrSeparator == <<",", " ">>

Digits == <<"0","1","2","3","4","5","6","7","8","9">>

RECURSIVE NatToStr(_)
NatToStr(n) ==
    IF n < 10 THEN <<Digits[n + 1]>>
    ELSE Append(NatToStr(n \div 10), Digits[(n % 10) + 1])

\* str(n) that loses the sign
IntToStrNoSign(n) == IF n < 0 THEN NatToStr(0 - n) ELSE NatToStr(n)

\* str(n)
IntToStr(n) == IF n < 0 THEN <<"-">> \o NatToStr(0 - n) ELSE NatToStr(n)

\* sep.join(parts)
RECURSIVE JoinStr(_, _)
JoinStr(sep, parts) ==
    IF parts = <<>> THEN <<>>
    ELSE IF Len(parts) = 1 THEN parts[1]
    ELSE parts[1] \o sep \o JoinStr(sep, Tail(parts))

KeyAccuracy == <<"accuracy">>
KeyLoss == <<"loss">>
KeyConfigLearningRate == <<"config_", "learning_rate">>
KeyLearningRate == <<"learning_rate">>

\* the accuracy, the loss and the learning-rate parts of a description
AccuracyPart(stats) ==
    IF KeyAccuracy \notin DOMAIN stats THEN <<>>
    ELSE IF Above(stats[KeyAccuracy].mean, HighAccuracy) THEN <<StrHighAccuracy>>
    ELSE IF Below(stats[KeyAccuracy].mean, LowAccuracy) THEN <<StrLowAccuracy>>
    ELSE <<>>

LossPart(stats) ==
    IF KeyLoss \notin DOMAIN stats THEN <<>>
    ELSE IF Below(stats[KeyLoss].mean, LowLoss) THEN <<StrWellConverged>>
    ELSE IF Above(stats[KeyLoss].mean, HighLoss) THEN <<StrConvergenceIssues>>
    ELSE <<>>

LearningRatePart(stats) ==
    IF KeyConfigLearningRate \notin DOMAIN stats /\ KeyLearningRate \notin DOMAIN stats
    THEN <<>>
    ELSE LET lr_key == IF KeyConfigLearningRate \in DOMAIN stats
                       THEN KeyConfigLearningRate ELSE KeyLearningRate
             lr == stats[lr_key].mean
         IN IF Above(lr, HighLearningRate) THEN <<StrHighLearningRate>>
            ELSE IF Below(lr, LowLearningRate) THEN <<StrLowLearningRate>>
            ELSE <<>>

\* a description in which the loss is looked at only when the accuracy
\* rule did not fire
CharacterizeFirstRule(cluster_id, stats) ==
    LET desc_parts == IF AccuracyPart(stats) # <<>>
                      THEN AccuracyPart(stats) \o LearningRatePart(stats)
                      ELSE LossPart(stats) \o LearningRatePart(stats)
    IN IF desc_parts # <<>> THEN JoinStr(StrSeparator, desc_parts)
       ELSE StrCluster \o IntToStr(cluster_id)

\* the description of one cluster
Characterize(cluster_id, stats) ==
    LET desc_parts == AccuracyPart(stats) \o LossPart(stats) \o LearningRatePart(stats)
    IN IF desc_parts # <<>> THEN JoinStr(StrSeparator, desc_parts)
       ELSE StrCluster \o IntToStr(cluster_id)

GetClusterCharacteristics(tbl) ==
    LET summaries == GetClusterSummary(tbl)
    IN IF summaries.kind = "raise" THEN summaries
       ELSE Return([cluster_id \in DOMAIN summaries.value |->
                       Characterize(cluster_id, summaries.value[cluster_id].stats)])

\* the matrix PCA returns
Reduced(n, n_components) ==
    [n |-> n, cols |-> [i \in 1..n_components |-> <<"component">>], finite |-> TRUE]

\* reduce_dimensions; PCA refuses more components than features, and a
\* matrix that holds NaN
ReduceDimensions(features_, n_components) ==
    IF Size(features_) = 0 \/ features_.n < n_components THEN Return(features_)
    ELSE IF n_components > Min(features_.n, Len(features_.cols)) \/ ~features_.finite
    THEN Raise("ValueError", <<>>)
    ELSE Return(Reduced(features_.n, n_components))

\* tables that already carry labels: four runs under every labelling
RowHigh ==
    (<<"id">> :> S(1)) @@ (<<"name">> :> S(11)) @@ (<<"runtime">> :> I(100))
    @@ (KeyAccuracy :> F(9500)) @@ (KeyLoss :> F(500))
    @@ (KeyConfigLearningRate :> F(500)) @@ (KeyLearningRate :> F(10))
    @@ (<<"config_", "optimizer">> :> S(7))
RowHighNoLoss ==
    (<<"id">> :> S(2)) @@ (<<"name">> :> S(12)) @@ (<<"runtime">> :> I(200))
    @@ (KeyAccuracy :> F(9200)) @@ (KeyLoss :> NaN)
    @@ (KeyConfigLearningRate :> F(10)) @@ (KeyLearningRate :> F(500))
    @@ (<<"config_", "optimizer">> :> S(8))
RowNeutral ==
    (<<"id">> :> S(3)) @@ (<<"name">> :> S(13)) @@ (<<"runtime">> :> I(300))
    @@ (KeyAccuracy :> F(8200)) @@ (KeyLoss :> F(3000))
    @@ (KeyConfigLearningRate :> F(10)) @@ (KeyLearningRate :> F(10))
    @@ (<<"config_", "optimizer">> :> S(7))
RowLow ==
    (<<"id">> :> S(4)) @@ (<<"name">> :> S(14)) @@ (<<"runtime">> :> I(100))
    @@ (KeyAccuracy :> F(6000)) @@ (KeyLoss :> F(7200))
    @@ (KeyConfigLearningRate :> F(0)) @@ (KeyLearningRate :> F(10))
    @@ (<<"config_", "optimizer">> :> S(8))

LabelledRows == <<RowHigh, RowHighNoLoss, RowNeutral, RowLow>>

ColumnChoices ==
    {<<<<"name">>, KeyAccuracy, KeyLoss>>,
     <<<<"name">>, KeyAccuracy, KeyLoss, KeyConfigLearningRate, KeyLearningRate>>,
     <<<<"name">>, KeyLearningRate>>,
     <<<<"name">>, <<"runtime">>, <<"config_", "optimizer">>>>,
     <<<<"id">>, KeyAccuracy>>}

\* the labels a fitted estimator or the noise marker can put on a row
Labels == -1..(MaxLabels - 2)

ClusteredTables ==
    {SetColumn(MkTable(cols, LabelledRows), ColCluster,
               [i \in 1..Len(LabelledRows) |-> I(f[i])]) :
        cols \in ColumnChoices, f \in [1..Len(LabelledRows) -> Labels]}

\* ---------------------------------------------------------------------
\* extract_run_data and the row of the run table
\* ---------------------------------------------------------------------
Metadata(run) ==
    [id |-> run.id, name |-> run.name, state |-> run.state,
     created_at |-> run.created_at, updated_at |-> run.updated_at,
     runtime |-> IF KeyRuntime \in DOMAIN run.summary
                 THEN run.summary[KeyRuntime] ELSE I(0),
     user |-> IF run.user # None THEN run.user ELSE S(0),
     commit |-> IF run.has_commit THEN run.commit ELSE None,
     tags |-> run.tags, notes |-> run.notes, url |-> run.url]

ExtractRunData(run) ==
    IF "id" \in run.unreadable
    THEN Raise("AttributeError", MsgNoAttribute)
    ELSE IF run.unreadable \cap TryAttrs # {}
    THEN Raise("ValidationError", FmtFailedToExtract \o MsgNoAttribute)
    ELSE Return([metadata |-> Metadata(run), summary |-> run.summary,
                 config |-> run.config, run_object |-> run])

\* ','.join(tags): the tag codes written one after the other
RECURSIVE JoinCode(_)
JoinCode(tags) ==
    IF tags = <<>> THEN 0
    ELSE JoinCode(SubSeq(tags, 1, Len(tags) - 1)) * 10 + tags[Len(tags)].v
Join(tags) == S(JoinCode(tags))

\* f'config_{key}'
ConfigKey(k) == <<"config_">> \o k

RowOf(run_data) ==
    LET md == run_data.metadata
        base == (<<"id">> :> md.id) @@ (<<"name">> :> md.name)
                @@ (<<"state">> :> md.state)
                @@ (<<"created_at">> :> md.created_at)
                @@ (<<"runtime">> :> md.runtime)
                @@ (<<"commit">> :> md.commit)
                @@ (<<"tags">> :> IF md.tags # <<>> THEN Join(md.tags) ELSE S(0))
        metricKeys == {k \in DOMAIN run_data.summary :
                         /\ Head(k) # "_"
                         /\ run_data.summary[k].t \in {"int", "float", "bool"}}
        metrics == [k \in metricKeys |-> run_data.summary[k]]
        configKeys == {k \in DOMAIN run_data.config :
                         run_data.config[k].t \in {"int", "float", "str", "bool"}}
        configs == [c \in {ConfigKey(k) : k \in configKeys} |->
                      run_data.config[CHOOSE k \in configKeys : ConfigKey(k) = c]]
    IN configs @@ metrics @@ base

\* the loop of get_runs_dataframe over the fetched runs
RECURSIVE GetRunsDataframeLoop(_, _)
GetRunsDataframeLoop(runs_, data) ==
    IF runs_ = <<>> THEN Return([rows |-> data])
    ELSE LET run == Head(runs_)
             run_data == ExtractRunData(run)
         IN IF run_data.kind = "return"
            THEN GetRunsDataframeLoop(Tail(runs_), Append(data, RowOf(run_data.value)))
            ELSE IF "id" \in run.unreadable
            THEN Raise("AttributeError", MsgNoAttribute)
            ELSE GetRunsDataframeLoop(Tail(runs_), data)

\* ---------------------------------------------------------------------
\* compare_runs
\* ---------------------------------------------------------------------
EmptyComparison == [metrics |-> EmptyDict, configs |-> EmptyDict, metadata |-> <<>>]

Collect(acc, d, run_id) ==
    [k \in DOMAIN acc \cup DOMAIN d |->
        LET old == IF k \in DOMAIN acc THEN acc[k] ELSE EmptyDict
        IN IF k \in DOMAIN d THEN (run_id :> d[k]) @@ old ELSE old]

\* the metadata recorded as soon as the run is fetched, before extraction
CompareOneEarlyAppend(cmp, run_id, o) ==
    LET run_data == IF o.kind = "return" THEN ExtractRunData(o.value) ELSE o
    IN IF run_data.kind = "return"
       THEN [metadata |-> Append(cmp.metadata, run_data.value.metadata),
             metrics |-> Collect(cmp.metrics, run_data.value.summary, run_id),
             configs |-> Collect(cmp.configs, run_data.value.config, run_id)]
       ELSE IF o.kind = "return"
       THEN [cmp EXCEPT !.metadata = Append(cmp.metadata, Metadata(o.value))]
       ELSE cmp

CompareOne(cmp, run_id, o) ==
    LET run_data == IF o.kind = "return" THEN ExtractRunData(o.value) ELSE o
    IN IF run_data.kind = "return"
       THEN [metadata |-> Append(cmp.metadata, run_data.value.metadata),
             metrics |-> Collect(cmp.metrics, run_data.value.summary, run_id),
             configs |-> Collect(cmp.configs, run_data.value.config, run_id)]
       ELSE cmp

\* ---------------------------------------------------------------------
\* What the remote service can do on one call
\* ---------------------------------------------------------------------
RemoteMessages ==
    {MsgAuthenticationFailed, MsgUnauthorized, MsgRateLimitExceeded,
     MsgRateLimitUpper, MsgProjectNotFound, MsgDoesNotExist, MsgNetworkError,
     MsgServerError, MsgUnauthorizedRateLimit, MsgNotFoundRateLimit,
     MsgRateLimitSplit}

RemoteErrors ==
    {Raise("Exception", m) : m \in RemoteMessages}
    \cup {Raise("OSError", MsgNetworkError)}
    \cup {Raise(c, m) : c \in TransientClasses,
                        m \in {MsgNetworkError, MsgRateLimitExceeded}}
    \cup {Raise("ConnectionResetError", MsgNetworkError)}

ProjectLists == {<<>>, <<S(101)>>, <<S(101), S(102)>>}

RemoteOutcomes(o_) ==
    RemoteErrors \cup
    (IF o_ = "get_projects" THEN {Return(v) : v \in ProjectLists}
     ELSE {Return(v) : v \in SeqsUpTo(Handles, MaxRuns)})

FetchOutcomes ==
    {Return(h) : h \in Handles}
    \cup {Raise("ConnectionError", MsgNetworkError),
          Raise("TimeoutError", MsgNetworkError),
          Raise("Exception", MsgProjectNotFound)}

\* the limit argument of get_runs and get_runs_dataframe
Limits == {1, DefaultLimit}

Names ==
    {<<>>, <<" ">>, <<"\t", " ">>, <<"a">>, <<" ", "a", "b", " ">>,
     Rep(MaxNameLen), Rep(MaxNameLen + 1)}

RunIdLists == SeqsUpTo({"r1", "r2"}, MaxRunIds)

\* ---------------------------------------------------------------------
\* The analysis adapter (ai_analysis.py)
\* ---------------------------------------------------------------------
\* Python values that came out of json.loads or were built as a fallback
PyDict(d) == [t |-> "dict", v |-> d]
PyList(q) == [t |-> "list", v |-> q]

\* what json.dumps meets in a dictionary argument: only JSON types, a value
\* of another type (a Timestamp, a numpy integer), or a key that is neither
\* str, int, float, bool nor None
ArgKinds == {"plain", "needs_default", "bad_key"}

\* json.dumps(obj, indent=2, default=str) and json.dumps(obj, indent=2)
JsonDumps(kind, default_str) ==
    IF kind = "bad_key" \/ (kind = "needs_default" /\ ~default_str)
    THEN Raise("TypeError", <<>>)
    ELSE Return(<<>>)

\* the first failure of a sequence of steps, or the last result
RECURSIVE FirstFailure(_)
FirstFailure(steps) ==
    IF Len(steps) = 1 \/ steps[1].kind = "raise" THEN steps[1]
    ELSE FirstFailure(Tail(steps))

\* _build_cluster_analysis_prompt; selected_run is "none" for None or {}
BuildClusterAnalysisPrompt(cluster_data, all_clusters, selected_run) ==
    FirstFailure(<<JsonDumps(cluster_data, TRUE), JsonDumps(all_clusters, TRUE)>>
                 \o (IF selected_run = "none" THEN <<>>
                     ELSE <<JsonDumps(selected_run, TRUE)>>))

\* the prompts of compare_runs, suggest_experiments and analyze_code_changes
BuildComparePrompt(run1, run2) ==
    FirstFailure(<<JsonDumps(run1, TRUE), JsonDumps(run2, TRUE)>>)
BuildSuggestPrompt(current_results) == JsonDumps(current_results, TRUE)
BuildCodeChangesPrompt(before_metrics, after_metrics) ==
    FirstFailure(<<JsonDumps(before_metrics, FALSE), JsonDumps(after_metrics, FALSE)>>)

\* the text-generation service: it raises, answers without content, or
\* answers with a text
ServiceErrors == {"APIConnectionError", "RateLimitError", "APIStatusError"}
ResponseChars == {"{", "}", "[", "]", "x", " "}
Responses == SeqsUpTo(ResponseChars, MaxResponse)
NotCalled == [kind |-> "none", exc |-> "none", text |-> <<>>]
ServiceOutcomes ==
    {[kind |-> "raise", exc |-> e, text |-> <<>>] : e \in ServiceErrors}
    \cup {[kind |-> "empty", exc |-> "none", text |-> <<>>]}
    \cup {[kind |-> "text", exc |-> "none", text |-> r] : r \in Responses}

\* str.find and str.rfind of one character, s[a:b] and s[:n]
Find(s, c) ==
    IF \E i \in 1..Len(s) : s[i] = c
    THEN (CHOOSE i \in 1..Len(s) : s[i] = c /\ \A j \in 1..(i - 1) : s[j] # c) - 1
    ELSE -1
RFind(s, c) ==
    IF \E i \in 1..Len(s) : s[i] = c
    THEN (CHOOSE i \in 1..Len(s) : s[i] = c /\ \A j \in (i + 1)..Len(s) : s[j] # c) - 1
    ELSE -1
Slice(s, a, b) == SubSeq(s, a + 1, b)
Prefix(s, n) == SubSeq(s, 1, Min(n, Len(s)))

\* json.loads accepts the text: over the characters of the responses, a JSON
\* document is an empty object or an array of at most one document
RECURSIVE IsJson(_)
IsJson(s) ==
    LET t == Strip(s)
        inner == SubSeq(t, 2, Len(t) - 1)
    IN /\ Len(t) >= 2
       /\ \/ t[1] = "{" /\ t[Len(t)] = "}" /\ Strip(inner) = <<>>
          \/ t[1] = "[" /\ t[Len(t)] = "]" /\ (Strip(inner) = <<>> \/ IsJson(inner))

\* the value json.loads returns for it
RECURSIVE JsonValue(_)
JsonValue(s) ==
    LET t == Strip(s)
        inner == SubSeq(t, 2, Len(t) - 1)
    IN IF t[1] = "{" THEN PyDict(EmptyDict)
       ELSE IF Strip(inner) = <<>> THEN PyList(<<>>)
       ELSE PyList(<<JsonValue(inner)>>)

SummaryLimit == 200

StrAnalysisUnavailable ==
    <<"A","n","a","l","y","s","i","s"," ","u","n","a","v","a","i","l","a",
      "b","l","e">>
StrAnalysisCompleted ==
    <<"A","n","a","l","y","s","i","s"," ","c","o","m","p","l","e","t","e",
      "d">>
StrUnableToSuggest ==
    <<"U","n","a","b","l","e"," ","t","o"," ","g","e","n","e","r","a","t",
      "e"," ","s","u","g","g","e","s","t","i","o","n","s"," ","a","t"," ",
      "t","h","i","s"," ","t","i","m","e",".">>

\* the structure built around a response that holds no JSON object
TextAnalysis(summary_, insights_) ==
    PyDict([summary |-> summary_, insights |-> insights_,
            recommendations |-> <<>>, key_findings |-> <<>>])

\* _parse_analysis_response
ParseAnalysisResponse(response) ==
    LET start_idx == Find(response, "{")
        end_idx == RFind(response, "}") + 1
    IN IF start_idx # -1 /\ end_idx > start_idx
       THEN LET json_str == Slice(response, start_idx, end_idx)
            IN IF IsJson(json_str) THEN JsonValue(json_str)
               ELSE TextAnalysis(IF response # <<>> THEN Prefix(response, SummaryLimit)
                                 ELSE StrAnalysisCompleted,
                                 IF response # <<>> THEN <<response>> ELSE <<>>)
       ELSE TextAnalysis(Prefix(response, SummaryLimit), <<response>>)

\* the values returned from the except blocks
ClusterAnalysisFallback == TextAnalysis(StrAnalysisUnavailable, <<>>)
ComparisonFallback ==
    PyDict([performance_difference |-> StrAnalysisUnavailable,
            config_differences |-> <<>>, likely_causes |-> <<>>,
            recommendation |-> <<>>])
SuggestionsFallback == PyList(<<StrUnableToSuggest>>)
CodeChangesFallback ==
    PyDict([impact_summary |-> StrAnalysisUnavailable, metric_changes |-> <<>>,
            code_explanation |-> <<>>, causation_analysis |-> <<>>])

\* the try block of the three operations that answer with a structure:
\* a raising call and an answer without content end in the except block
AnalysisOf(o, fallback) ==
    IF o.kind \in {"raise", "empty"} THEN Return(fallback)
    ELSE Return(ParseAnalysisResponse(o.text))

\* the try block of suggest_experiments
SuggestionsOf(o) ==
    IF o.kind \in {"raise", "empty"} THEN Return(SuggestionsFallback)
    ELSE LET start_idx == Find(o.text, "[")
             end_idx == RFind(o.text, "]") + 1
         IN IF start_idx # -1 /\ end_idx > start_idx
            THEN LET json_str == Slice(o.text, start_idx, end_idx)
                 IN IF IsJson(json_str) THEN Return(JsonValue(json_str))
                    ELSE Return(SuggestionsFallback)
            ELSE Return(PyList(<<o.text>>))

\* ---------------------------------------------------------------------
\* State
\* ---------------------------------------------------------------------
VARIABLES
    op,          \* the operation in progress, "none" between calls
    entity,      \* its entity argument
    project,     \* its project argument
    pc,          \* position inside the operation
    attempt,     \* attempt number of the retry decorator
    slept,       \* seconds spent in backoff
    trace,       \* what each invocation of the remote listing call did
    apiCalls,    \* invocations of the remote listing call
    runs,        \* the list get_runs returned to get_runs_dataframe
    run_ids,     \* argument of compare_runs
    idx,         \* position of compare_runs in run_ids
    fetchTrace,  \* what each api.run invocation did
    comparison,  \* the aggregation compare_runs builds
    run,         \* argument of extract_run_data
    result,      \* how the operation ended
    limit,       \* the limit argument of the operation (0: it has none)
    method,        \* ExperimentCluster.method
    n_clusters,    \* ExperimentCluster.n_clusters
    model,         \* ExperimentCluster.model
    feature_names, \* ExperimentCluster.feature_names
    df,            \* the table object the caller of the engine holds
    df0,           \* that table as it was when the last call began
    metric_cols,   \* the metric_cols argument of the last call
    cOp,           \* the last operation called on the engine
    cRes,          \* how it ended
    cSame,         \* the table it returned is the caller's object itself
    features,      \* the matrix argument of the last fit_predict / reduce_dimensions
    aOp,           \* the last operation called on the analysis adapter
    aPc,           \* its position: "idle", or "calling" the service
    aArgs,         \* what its dictionary arguments hold
    aResp,         \* what the text-generation service did with its call
    aCalls,        \* messages.create invocations of that operation
    aRes,          \* how the operation ended
    admitted,      \* calls each limiter of rate_limiter.py has admitted
    max_calls,     \* RateLimiter.max_calls
    time_window,   \* RateLimiter.time_window, in clock ticks
    calls,         \* RateLimiter.calls: the recorded timestamps, as ages
    lock,          \* RateLimiter.lock: the thread that holds it, or 0
    tpc,           \* where each thread stands in wrapper
    timer,         \* what is left of each thread's time.sleep
    waits,         \* time.sleep calls of each thread's current call
    invoked,       \* invocations of func in each thread's current call
    started,       \* calls of wrapper started so far
    log            \* ages of the admissions of the last time_window ticks

clientVars ==
    <<op, entity, project, pc, attempt, slept, trace, apiCalls, runs, run_ids,
      idx, fetchTrace, comparison, run, result, limit>>

clusterVars ==
    <<method, n_clusters, model, feature_names, df, df0, metric_cols, cOp, cRes,
      cSame, features>>

analyzerVars == <<aOp, aPc, aArgs, aResp, aCalls, aRes>>

limiterVars ==
    <<admitted, max_calls, time_window, calls, lock, tpc, timer, waits, invoked,
      started, log>>

vars == <<clientVars, clusterVars, analyzerVars, limiterVars>>

ClientIdle ==
    /\ op = "none" /\ entity = <<>> /\ project = <<>> /\ pc = "idle"
    /\ attempt = 0 /\ slept = 0 /\ trace = <<>> /\ apiCalls = 0
    /\ runs = <<>> /\ run_ids = <<>> /\ idx = 0 /\ fetchTrace = <<>>
    /\ comparison = EmptyComparison /\ run = None /\ result = NoResult
    /\ limit = 0

AnalyzerIdle ==
    /\ aOp = "none" /\ aPc = "idle" /\ aArgs = <<>> /\ aResp = NotCalled
    /\ aCalls = 0
    /\ aRes = NoResult

\* no limiter has admitted a call
Threads == 1..MaxThreads

\* RateLimiter(max_calls=m, time_window=w), no call made yet
LimiterInit(m, w) ==
    /\ admitted = [wandb_rate_limit |-> 0, anthropic_rate_limit |-> 0,
                   general_rate_limit |-> 0]
    /\ max_calls = m /\ time_window = w
    /\ calls = <<>> /\ lock = 0
    /\ tpc = [t \in Threads |-> "idle"]
    /\ timer = [t \in Threads |-> 0]
    /\ waits = [t \in Threads |-> 0]
    /\ invoked = [t \in Threads |-> 0]
    /\ started = 0 /\ log = <<>>

LimiterIdle == LimiterInit(1, 1)


\* ---------------------------------------------------------------------
\* Listing operations under the retry decorator
\* ---------------------------------------------------------------------
CallListing(o_, e, p, l) ==
    /\ pc = "idle"
    /\ op' = o_ /\ entity' = e /\ project' = p /\ limit' = l
    /\ pc' = "attempt" /\ attempt' = 1
    /\ UNCHANGED <<slept, trace, apiCalls, runs, run_ids, idx, fetchTrace,
                   comparison, run, result>>
    /\ UNCHANGED <<clusterVars, analyzerVars, limiterVars>>

CallGetProjects == \E e \in Names : CallListing("get_projects", e, <<>>, 0)
CallGetRuns ==
    \E e \in Names, p \in Names, l \in Limits : CallListing("get_runs", e, p, l)
CallGetRunsDataframe ==
    \E e \in Names, p \in Names, l \in Limits :
        CallListing("get_runs_dataframe", e, p, l)

\* what the decorator does with the outcome r of one attempt
Settle(r) ==
    IF RetryIf(r) /\ ~StopAfterAttempt(attempt)
    THEN /\ pc' = "wait"
         /\ UNCHANGED <<runs, result>>
    ELSE IF r.kind = "return" /\ op = "get_runs_dataframe"
    THEN /\ pc' = "rows"
         /\ runs' = r.value
         /\ UNCHANGED result
    ELSE /\ pc' = "done"
         /\ result' = r
         /\ UNCHANGED runs

\* an attempt whose arguments fail validation
AttemptInvalid ==
    /\ pc = "attempt"
    /\ ValidateArgs(op, entity, project).kind = "raise"
    /\ Settle(ValidateArgs(op, entity, project))
    /\ UNCHANGED <<op, entity, project, limit, attempt, slept, trace, apiCalls,
                   run_ids, idx, fetchTrace, comparison, run>>
    /\ UNCHANGED <<clusterVars, analyzerVars, limiterVars>>

\* an attempt that reaches the remote call
AttemptRemote ==
    /\ pc = "attempt"
    /\ ValidateArgs(op, entity, project).kind = "return"
    /\ \E o \in RemoteOutcomes(op) :
          /\ trace' = Append(trace, o)
          /\ apiCalls' = apiCalls + 1
          /\ Settle(Body(op, entity, project, limit, o))
    /\ UNCHANGED <<op, entity, project, limit, attempt, slept,
                   run_ids, idx, fetchTrace, comparison, run>>
    /\ UNCHANGED <<clusterVars, analyzerVars, limiterVars>>

\* the decorator sleeps and starts the next attempt
Backoff ==
    /\ pc = "wait"
    /\ slept' = slept + WaitExponential(attempt)
    /\ attempt' = attempt + 1
    /\ pc' = "attempt"
    /\ UNCHANGED <<op, entity, project, limit, trace, apiCalls, runs, run_ids, idx,
                   fetchTrace, comparison, run, result>>
    /\ UNCHANGED <<clusterVars, analyzerVars, limiterVars>>

\* get_runs_dataframe after get_runs returned
BuildTable ==
    /\ pc = "rows"
    /\ result' = GetRunsDataframeLoop(runs, <<>>)
    /\ pc' = "done"
    /\ UNCHANGED <<op, entity, project, limit, attempt, slept, trace, apiCalls, runs,
                   run_ids, idx, fetchTrace, comparison, run>>
    /\ UNCHANGED <<clusterVars, analyzerVars, limiterVars>>

\* ---------------------------------------------------------------------
\* extract_run_data and compare_runs called directly
\* ---------------------------------------------------------------------
CallExtractRunData ==
    /\ pc = "idle"
    /\ \E h \in Handles :
          /\ run' = h
          /\ result' = ExtractRunData(h)
    /\ op' = "extract_run_data"
    /\ pc' = "done"
    /\ UNCHANGED <<entity, project, limit, attempt, slept, trace, apiCalls,
                   runs, run_ids, idx, fetchTrace, comparison>>
    /\ UNCHANGED <<clusterVars, analyzerVars, limiterVars>>

CallCompareRuns ==
    /\ pc = "idle"
    /\ op' = "compare_runs"
    /\ \E ids \in RunIdLists, e \in {<<>>, <<"a">>} :
          /\ run_ids' = ids
          /\ entity' = e
          /\ project' = <<"a">>
          /\ IF ids = <<>>
             THEN /\ result' = Raise("ValidationError", FmtNoRunIds)
                  /\ pc' = "done"
                  /\ idx' = 0
             ELSE /\ pc' = "compare"
                  /\ idx' = 1
                  /\ UNCHANGED result
    /\ UNCHANGED <<limit, attempt, slept, trace, apiCalls, runs, fetchTrace,
                   comparison, run>>
    /\ UNCHANGED <<clusterVars, analyzerVars, limiterVars>>

\* one iteration of the loop of compare_runs
CompareFetch ==
    /\ pc = "compare"
    /\ \E o \in FetchOutcomes :
          /\ fetchTrace' = Append(fetchTrace, o)
          /\ comparison' = CompareOne(comparison, run_ids[idx], o)
    /\ IF idx = Len(run_ids)
       THEN /\ pc' = "done"
            /\ result' = Return(comparison')
            /\ UNCHANGED idx
       ELSE /\ idx' = idx + 1
            /\ UNCHANGED <<pc, result>>
    /\ UNCHANGED <<op, entity, project, limit, attempt, slept, trace, apiCalls, runs,
                   run_ids, run>>
    /\ UNCHANGED <<clusterVars, analyzerVars, limiterVars>>

\* the caller has the outcome; the client is ready for the next call
Finish ==
    /\ pc = "done"
    /\ op' = "none" /\ entity' = <<>> /\ project' = <<>> /\ pc' = "idle"
    /\ attempt' = 0 /\ slept' = 0 /\ trace' = <<>> /\ apiCalls' = 0
    /\ runs' = <<>> /\ run_ids' = <<>> /\ idx' = 0 /\ fetchTrace' = <<>>
    /\ comparison' = EmptyComparison /\ run' = None /\ result' = NoResult
    /\ limit' = 0
    /\ UNCHANGED <<clusterVars, analyzerVars, limiterVars>>


\* ---------------------------------------------------------------------
\* The clustering engine and the table object its caller holds
\* ---------------------------------------------------------------------
ClusterInit(m, n) ==
    /\ method = m /\ n_clusters = n /\ model = NoModel /\ feature_names = <<>>
    /\ df = TableEmpty /\ df0 = TableEmpty /\ metric_cols = NoCols
    /\ cOp = "none" /\ cRes = NoResult /\ cSame = FALSE
    /\ features = EmptyFeatures

\* ExperimentCluster() with its default arguments, never called
ClusterIdle == ClusterInit("kmeans", DefaultClusters)

InitCluster ==
    /\ ClientIdle /\ AnalyzerIdle /\ LimiterIdle
    /\ \E m \in Methods, n \in 1..MaxClusters : ClusterInit(m, n)

\* the caller builds a run table
LoadTable ==
    /\ \E t \in Tables : df' = t
    /\ df0' = df'
    /\ metric_cols' = NoCols
    /\ cOp' = "none" /\ cRes' = NoResult /\ cSame' = FALSE
    /\ features' = EmptyFeatures
    /\ UNCHANGED <<method, n_clusters, model, feature_names>>
    /\ UNCHANGED <<clientVars, analyzerVars, limiterVars>>

\* cluster_runs(df, metric_cols) on the caller's table
ClusterRuns ==
    /\ \E mc \in MetricCols :
         \E oc \in ClusterRunsOutcomes(method, n_clusters, model, feature_names, df, mc) :
            /\ metric_cols' = mc
            /\ df0' = df
            /\ df' = oc.df
            /\ cRes' = oc.res
            /\ cSame' = oc.same
            /\ model' = oc.model
            /\ feature_names' = oc.feature_names
    /\ cOp' = "cluster_runs"
    /\ features' = EmptyFeatures
    /\ UNCHANGED <<method, n_clusters>>
    /\ UNCHANGED <<clientVars, analyzerVars, limiterVars>>

\* the matrices a caller hands to fit_predict: np.array([]), shape (0, 1),
\* one-column matrices of 1..MaxSamples rows, and np.array([[nan]])
FeatureMatrices ==
    {EmptyFeatures, [n |-> 0, cols |-> <<<<"accuracy">>>>, finite |-> TRUE]}
    \cup {[n |-> k, cols |-> <<<<"accuracy">>>>, finite |-> TRUE] : k \in 1..MaxSamples}
    \cup {[n |-> 1, cols |-> <<<<"accuracy">>>>, finite |-> FALSE]}

\* prepare_features(df, metric_cols) on the caller's table
PrepareFeaturesCall ==
    /\ \E mc \in MetricCols :
          LET pf == PrepareFeatures(feature_names, df, mc)
          IN /\ metric_cols' = mc
             /\ cRes' = pf.res
             /\ feature_names' = pf.feature_names
    /\ cOp' = "prepare_features"
    /\ df0' = df
    /\ cSame' = FALSE
    /\ features' = EmptyFeatures
    /\ UNCHANGED <<method, n_clusters, model, df>>
    /\ UNCHANGED <<clientVars, analyzerVars, limiterVars>>

\* fit_predict(features) called directly
FitPredictCall ==
    /\ \E f \in FeatureMatrices :
         \E fp \in FitPredict(method, n_clusters, model, f) :
            /\ features' = f
            /\ cRes' = fp.res
            /\ model' = fp.model
    /\ cOp' = "fit_predict"
    /\ df0' = df
    /\ cSame' = FALSE
    /\ metric_cols' = NoCols
    /\ UNCHANGED <<method, n_clusters, feature_names, df>>
    /\ UNCHANGED <<clientVars, analyzerVars, limiterVars>>

\* get_cluster_summary(df) on the caller's table
GetClusterSummaryCall ==
    /\ cOp' = "get_cluster_summary"
    /\ cRes' = GetClusterSummary(df)
    /\ df0' = df /\ cSame' = FALSE
    /\ metric_cols' = NoCols /\ features' = EmptyFeatures
    /\ UNCHANGED <<method, n_clusters, model, feature_names, df>>
    /\ UNCHANGED <<clientVars, analyzerVars, limiterVars>>

\* get_cluster_characteristics(df) on the caller's table
GetClusterCharacteristicsCall ==
    /\ cOp' = "get_cluster_characteristics"
    /\ cRes' = GetClusterCharacteristics(df)
    /\ df0' = df /\ cSame' = FALSE
    /\ metric_cols' = NoCols /\ features' = EmptyFeatures
    /\ UNCHANGED <<method, n_clusters, model, feature_names, df>>
    /\ UNCHANGED <<clientVars, analyzerVars, limiterVars>>

\* reduce_dimensions(features, n_components)
ReduceDimensionsCall ==
    /\ \E f \in FeatureMatrices, n_components \in 1..MaxComponents :
          /\ features' = f
          /\ cRes' = ReduceDimensions(f, n_components)
    /\ cOp' = "reduce_dimensions"
    /\ df0' = df /\ cSame' = FALSE /\ metric_cols' = NoCols
    /\ UNCHANGED <<method, n_clusters, model, feature_names, df>>
    /\ UNCHANGED <<clientVars, analyzerVars, limiterVars>>

NextCluster ==
    \/ LoadTable
    \/ ClusterRuns
    \/ PrepareFeaturesCall
    \/ FitPredictCall
    \/ GetClusterSummaryCall
    \/ GetClusterCharacteristicsCall
    \/ ReduceDimensionsCall

SpecCluster == InitCluster /\ [][NextCluster]_vars

\* the caller hands over a table that already carries labels
LoadClustered ==
    /\ \E t \in ClusteredTables \cup Tables : df' = t
    /\ df0' = df'
    /\ metric_cols' = NoCols
    /\ cOp' = "none" /\ cRes' = NoResult /\ cSame' = FALSE
    /\ features' = EmptyFeatures
    /\ UNCHANGED <<method, n_clusters, model, feature_names>>
    /\ UNCHANGED <<clientVars, analyzerVars, limiterVars>>

\* summaries and descriptions of labelled tables
NextSummary ==
    \/ LoadClustered
    \/ GetClusterSummaryCall
    \/ GetClusterCharacteristicsCall


\* ---------------------------------------------------------------------
\* The analysis adapter: one action per public operation
\* ---------------------------------------------------------------------
\* analyze_experiment_cluster up to its call of the service: the prompt is
\* built before the try block, so a failure of json.dumps leaves the operation
AnalyzeExperimentCluster ==
    /\ aPc = "idle"
    /\ \E cluster_data \in ArgKinds, all_clusters \in ArgKinds,
          selected_run \in ArgKinds \cup {"none"} :
          LET prompt == BuildClusterAnalysisPrompt(cluster_data, all_clusters,
                                                   selected_run)
          IN /\ aArgs' = <<cluster_data, all_clusters, selected_run>>
             /\ aRes' = IF prompt.kind = "raise" THEN prompt ELSE NoResult
             /\ aPc' = IF prompt.kind = "raise" THEN "idle" ELSE "calling"
    /\ aOp' = "analyze_experiment_cluster" /\ aResp' = NotCalled /\ aCalls' = 0
    /\ UNCHANGED <<clientVars, clusterVars, limiterVars>>

\* compare_runs of the adapter up to its call of the service
AnalyzerCompareRuns ==
    /\ aPc = "idle"
    /\ \E run1 \in ArgKinds, run2 \in ArgKinds :
          LET prompt == BuildComparePrompt(run1, run2)
          IN /\ aArgs' = <<run1, run2>>
             /\ aRes' = IF prompt.kind = "raise" THEN prompt ELSE NoResult
             /\ aPc' = IF prompt.kind = "raise" THEN "idle" ELSE "calling"
    /\ aOp' = "compare_runs" /\ aResp' = NotCalled /\ aCalls' = 0
    /\ UNCHANGED <<clientVars, clusterVars, limiterVars>>

\* suggest_experiments up to its call of the service
SuggestExperiments ==
    /\ aPc = "idle"
    /\ \E current_results \in ArgKinds :
          LET prompt == BuildSuggestPrompt(current_results)
          IN /\ aArgs' = <<current_results>>
             /\ aRes' = IF prompt.kind = "raise" THEN prompt ELSE NoResult
             /\ aPc' = IF prompt.kind = "raise" THEN "idle" ELSE "calling"
    /\ aOp' = "suggest_experiments" /\ aResp' = NotCalled /\ aCalls' = 0
    /\ UNCHANGED <<clientVars, clusterVars, limiterVars>>

\* analyze_code_changes up to its call of the service
AnalyzeCodeChanges ==
    /\ aPc = "idle"
    /\ \E before_metrics \in ArgKinds, after_metrics \in ArgKinds :
          LET prompt == BuildCodeChangesPrompt(before_metrics, after_metrics)
          IN /\ aArgs' = <<before_metrics, after_metrics>>
             /\ aRes' = IF prompt.kind = "raise" THEN prompt ELSE NoResult
             /\ aPc' = IF prompt.kind = "raise" THEN "idle" ELSE "calling"
    /\ aOp' = "analyze_code_changes" /\ aResp' = NotCalled /\ aCalls' = 0
    /\ UNCHANGED <<clientVars, clusterVars, limiterVars>>

\* the try block: messages.create is called once and the operation returns
\* what it makes of the outcome
ServiceCall ==
    /\ aPc = "calling"
    /\ \E o \in ServiceOutcomes :
          /\ aResp' = o
          /\ aRes' = CASE aOp = "analyze_experiment_cluster" ->
                            AnalysisOf(o, ClusterAnalysisFallback)
                       [] aOp = "compare_runs" -> AnalysisOf(o, ComparisonFallback)
                       [] aOp = "suggest_experiments" -> SuggestionsOf(o)
                       [] aOp = "analyze_code_changes" ->
                            AnalysisOf(o, CodeChangesFallback)
    /\ aCalls' = aCalls + 1 /\ aPc' = "idle"
    /\ UNCHANGED <<aOp, aArgs>>
    /\ UNCHANGED <<clientVars, clusterVars, limiterVars>>

NextAnalyzer ==
    \/ AnalyzeExperimentCluster
    \/ AnalyzerCompareRuns
    \/ SuggestExperiments
    \/ AnalyzeCodeChanges
    \/ ServiceCall

\* ---------------------------------------------------------------------
\* RateLimiter (rate_limiter.py) shared by threads. Time is counted in clock
\* ticks; a timestamp is kept as its age, the ticks since time.time()
\* returned it, up to time_window + 1 (older than the window).
\* ---------------------------------------------------------------------
\* the time_window of the limiter the threads share, in clock ticks
TimeWindow == 2

\* while self.calls and self.calls[0] < now - self.time_window: popleft()
RECURSIVE PopOld(_, _)
PopOld(q, w) == IF q # <<>> /\ Head(q) > w THEN PopOld(Tail(q), w) ELSE q

\* self.time_window - (now - self.calls[0])
WaitTime(q, w) == w - Head(q)

\* one more tick on every age
Older(q, w) == [i \in 1..Len(q) |-> IF q[i] <= w THEN q[i] + 1 ELSE q[i]]

\* a thread calls the wrapped function
LCall(t) ==
    /\ tpc[t] = "idle" /\ started < MaxStarted
    /\ started' = started + 1
    /\ tpc' = [tpc EXCEPT ![t] = "acquire"]
    /\ waits' = [waits EXCEPT ![t] = 0]
    /\ invoked' = [invoked EXCEPT ![t] = 0]
    /\ UNCHANGED <<admitted, max_calls, time_window, calls, lock, timer, log>>
    /\ UNCHANGED <<clientVars, clusterVars, analyzerVars>>

\* with self.lock: the thread gets the lock when no thread holds it
LAcquire(t) ==
    /\ tpc[t] = "acquire" /\ lock = 0
    /\ lock' = t
    /\ tpc' = [tpc EXCEPT ![t] = "check"]
    /\ UNCHANGED <<admitted, max_calls, time_window, calls, timer, waits,
                   invoked, started, log>>
    /\ UNCHANGED <<clientVars, clusterVars, analyzerVars>>

\* now = time.time(), the clean-up and the test of the limit: the thread
\* goes to sleep, or records the call
LCheck(t) ==
    /\ tpc[t] = "check"
    /\ LET kept == PopOld(calls, time_window)
       IN IF Len(kept) >= max_calls /\ WaitTime(kept, time_window) > 0
          THEN /\ calls' = kept
               /\ timer' = [timer EXCEPT ![t] = WaitTime(kept, time_window)]
               /\ waits' = [waits EXCEPT ![t] = @ + 1]
               /\ tpc' = [tpc EXCEPT ![t] = "sleeping"]
               /\ UNCHANGED log
          ELSE /\ calls' = Append(kept, 0)
               /\ log' = Append(log, 0)
               /\ tpc' = [tpc EXCEPT ![t] = "release"]
               /\ UNCHANGED <<timer, waits>>
    /\ UNCHANGED <<admitted, max_calls, time_window, lock, invoked, started>>
    /\ UNCHANGED <<clientVars, clusterVars, analyzerVars>>

\* time.sleep is over (at the earliest when wait_time has passed): now is
\* read again, the clean-up is repeated and the call is recorded
LWake(t) ==
    /\ tpc[t] = "sleeping" /\ timer[t] = 0
    /\ calls' = Append(PopOld(calls, time_window), 0)
    /\ log' = Append(log, 0)
    /\ tpc' = [tpc EXCEPT ![t] = "release"]
    /\ UNCHANGED <<admitted, max_calls, time_window, lock, timer, waits,
                   invoked, started>>
    /\ UNCHANGED <<clientVars, clusterVars, analyzerVars>>

\* the with block is left without giving the lock back
LReleaseKeepsLock(t) ==
    /\ tpc[t] = "release" /\ lock = t
    /\ lock' = lock
    /\ tpc' = [tpc EXCEPT ![t] = "invoke"]
    /\ UNCHANGED <<admitted, max_calls, time_window, calls, timer, waits,
                   invoked, started, log>>
    /\ UNCHANGED <<clientVars, clusterVars, analyzerVars>>

\* the with block is left
LRelease(t) ==
    /\ tpc[t] = "release" /\ lock = t
    /\ lock' = 0
    /\ tpc' = [tpc EXCEPT ![t] = "invoke"]
    /\ UNCHANGED <<admitted, max_calls, time_window, calls, timer, waits,
                   invoked, started, log>>
    /\ UNCHANGED <<clientVars, clusterVars, analyzerVars>>

\* return func(*args, **kwargs): func is entered
LInvoke(t) ==
    /\ tpc[t] = "invoke"
    /\ invoked' = [invoked EXCEPT ![t] = @ + 1]
    /\ tpc' = [tpc EXCEPT ![t] = "running"]
    /\ UNCHANGED <<admitted, max_calls, time_window, calls, lock, timer, waits,
                   started, log>>
    /\ UNCHANGED <<clientVars, clusterVars, analyzerVars>>

\* func returns or raises, after whatever time it takes; wrapper hands either on
LReturn(t) ==
    /\ tpc[t] = "running"
    /\ tpc' = [tpc EXCEPT ![t] = "idle"]
    /\ UNCHANGED <<admitted, max_calls, time_window, calls, lock, timer, waits,
                   invoked, started, log>>
    /\ UNCHANGED <<clientVars, clusterVars, analyzerVars>>

\* the clock advances by one tick
Tick ==
    /\ calls' = Older(calls, time_window)
    /\ log' = SelectSeq(Older(log, time_window), LAMBDA a : a <= time_window)
    /\ timer' = [t \in Threads |-> IF timer[t] > 0 THEN timer[t] - 1 ELSE 0]
    /\ UNCHANGED <<admitted, max_calls, time_window, lock, tpc, waits, invoked,
                   started>>
    /\ UNCHANGED <<clientVars, clusterVars, analyzerVars>>

InitLimiter ==
    /\ ClientIdle /\ ClusterIdle /\ AnalyzerIdle
    /\ \E m \in 1..MaxMaxCalls : LimiterInit(m, TimeWindow)

NextLimiter ==
    \/ \E t \in Threads : LCall(t)
    \/ \E t \in Threads : LAcquire(t)
    \/ \E t \in Threads : LCheck(t)
    \/ \E t \in Threads : LWake(t)
    \/ \E t \in Threads : LRelease(t)
    \/ \E t \in Threads : LInvoke(t)
    \/ \E t \in Threads : LReturn(t)
    \/ Tick

SpecLimiter == InitLimiter /\ [][NextLimiter]_vars

\* a thread that can run does run, a thread blocked on the lock gets it when
\* it is free again and again, and time passes; nothing makes func return
SpecLimiterFair ==
    /\ SpecLimiter
    /\ \A t \in Threads :
          /\ SF_vars(LAcquire(t))
          /\ WF_vars(LCheck(t)) /\ WF_vars(LWake(t))
          /\ WF_vars(LRelease(t)) /\ WF_vars(LInvoke(t))
    /\ WF_vars(Tick)

Init == ClientIdle /\ ClusterIdle /\ AnalyzerIdle /\ LimiterIdle

Next ==
    \/ CallGetProjects
    \/ CallGetRuns
    \/ CallGetRunsDataframe
    \/ AttemptInvalid
    \/ AttemptRemote
    \/ Backoff
    \/ BuildTable
    \/ CallExtractRunData
    \/ CallCompareRuns
    \/ CompareFetch
    \/ Finish

Spec == Init /\ [][Next]_vars

SpecAnalyzer == Init /\ [][NextAnalyzer]_vars

\* the summaries are computed from the table alone; the engine is the default one
SpecSummary == Init /\ [][NextSummary]_vars

\* =====================================================================
\* Properties
\* =====================================================================
Last(q) == q[Len(q)]

\* the remote call raised one of the two error classes the retry names
TransientError(o) ==
    o.kind = "raise" /\ o.exc \in {"ConnectionError", "TimeoutError"}
\* the remote call raised an error that is neither of them nor a subclass
NonTransientError(o) ==
    o.kind = "raise"
    /\ o.exc \notin {"ConnectionError", "TimeoutError", "ConnectionResetError"}

\* the messages that contain "rate limit", "authentication"/"unauthorized",
\* "not found"/"does not exist" in some letter case
RateLimitMessages ==
    {MsgRateLimitExceeded, MsgRateLimitUpper, MsgUnauthorizedRateLimit,
     MsgNotFoundRateLimit}
AuthenticationMessages ==
    {MsgAuthenticationFailed, MsgUnauthorized, MsgUnauthorizedRateLimit}
NotFoundMessages == {MsgProjectNotFound, MsgDoesNotExist, MsgNotFoundRateLimit}

ListingDone(o_) == op = o_ /\ pc = "done" /\ trace # <<>>

\* C1: cluster_runs leaves the caller's table as it was when the call began
\* (same columns, same cells) on every path, and a table that differs from
\* the input is never the input object itself.
C1_InputNeverMutated ==
    cOp = "cluster_runs" =>
        /\ df = df0
        /\ (cRes.kind = "return" /\ cRes.value # df0 => ~cSame)

\* C2: once get_runs has returned its run handles, get_runs_dataframe returns
\* (never raises) a table whose rows are the runs with readable fields, in
\* fetch order, whatever makes the other handles fail.
C2_PartialFailureNeverRaises ==
    (op = "get_runs_dataframe" /\ pc = "done" /\ trace # <<>>
        /\ Last(trace).kind = "return") =>
        /\ result.kind = "return"
        /\ LET good == SelectSeq(runs, WellFormed)
               rows == result.value.rows
           IN /\ Len(rows) = Len(good)
              /\ \A i \in 1..Len(good) :
                    /\ rows[i][<<"id">>] = good[i].id
                    /\ rows[i][<<"name">>] = good[i].name

\* C3: when the first invocation of the remote listing call raises a
\* ConnectionError or TimeoutError the call is invoked a second time, and when
\* that invocation succeeds get_projects / get_runs returns its result after
\* exactly two invocations.
C3_RetryThenSuccess ==
    \A o_ \in {"get_projects", "get_runs"} :
        (ListingDone(o_) /\ TransientError(trace[1])) =>
            /\ Len(trace) >= 2
            /\ (trace[2].kind = "return" =>
                    /\ result = Return(trace[2].value)
                    /\ apiCalls = 2
                    /\ Len(trace) = 2)

C3_Witness ==
    /\ ListingDone("get_runs") /\ Len(trace) = 2
    /\ trace[1] = Raise("ConnectionError", MsgNetworkError)
    /\ trace[2] = Return(<<RunGood1>>)
    /\ result = Return(<<RunGood1>>)
    /\ apiCalls = 2

C5_RateLimitAlwaysWins ==
    \A o_ \in {"get_projects", "get_runs"} :
        (ListingDone(o_) /\ Last(trace).kind = "raise"
            /\ Last(trace).msg \in RateLimitMessages) =>
            result.exc = "WandBRateLimitError"

\* C5 amended: a non-transient error that mentions "rate limit" in any letter
\* case never ends as the generic Connection failure; it ends as the RateLimit
\* failure unless the message also carries the wording the operation tests
\* first (authentication/unauthorized in get_projects, not found/does not
\* exist in get_runs), and then as that failure.
C5_RateLimitNotGeneric ==
    \A o_ \in {"get_projects", "get_runs"} :
        (ListingDone(o_) /\ NonTransientError(Last(trace))
            /\ Last(trace).msg \in RateLimitMessages) =>
            LET first == IF o_ = "get_projects" THEN AuthenticationMessages
                         ELSE NotFoundMessages
                firstExc == IF o_ = "get_projects" THEN "WandBAuthenticationError"
                            ELSE "WandBProjectNotFoundError"
            IN /\ result.kind = "raise"
               /\ result.exc # "WandBConnectionError"
               /\ result.exc = (IF Last(trace).msg \in first THEN firstExc
                                ELSE "WandBRateLimitError")

C5_Witness ==
    /\ ListingDone("get_runs")
    /\ Last(trace) = Raise("Exception", MsgRateLimitUpper)
    /\ result.exc = "WandBRateLimitError"

\* C6: get_projects turns every non-transient error into exactly one failure:
\* Authentication when the message mentions authentication or unauthorized,
\* otherwise RateLimit when it mentions rate limit, otherwise Connection.
C6_ProjectsClassification ==
    (ListingDone("get_projects") /\ NonTransientError(Last(trace))) =>
        /\ result.kind = "raise"
        /\ result.exc =
              (IF Last(trace).msg \in AuthenticationMessages
               THEN "WandBAuthenticationError"
               ELSE IF Last(trace).msg \in RateLimitMessages
               THEN "WandBRateLimitError"
               ELSE "WandBConnectionError")

C6_Witness ==
    /\ ListingDone("get_projects")
    /\ Last(trace) = Raise("Exception", MsgUnauthorizedRateLimit)
    /\ result.exc = "WandBAuthenticationError"

\* C7: get_runs turns every non-transient error into ProjectNotFound when the
\* message mentions not found or does not exist, otherwise RateLimit when it
\* mentions rate limit, otherwise Connection (authentication wording included).
C7_RunsClassification ==
    (ListingDone("get_runs") /\ NonTransientError(Last(trace))) =>
        /\ result.kind = "raise"
        /\ result.exc =
              (IF Last(trace).msg \in NotFoundMessages
               THEN "WandBProjectNotFoundError"
               ELSE IF Last(trace).msg \in RateLimitMessages
               THEN "WandBRateLimitError"
               ELSE "WandBConnectionError")

C7_Witness ==
    /\ ListingDone("get_runs")
    /\ Last(trace) = Raise("Exception", MsgAuthenticationFailed)
    /\ result.exc = "WandBConnectionError"

\* a name that is empty, all whitespace, or longer than 100 characters
InvalidName(n) ==
    \/ \A i \in 1..Len(n) : n[i] \in {" ", "\t", "\n"}
    \/ Len(n) > 100

\* C8: a listing call with an invalid entity (or, for get_runs, an invalid
\* project) never invokes the remote call, never starts a second attempt, and
\* ends with a Validation failure.
C8_InvalidArgumentNoCall ==
    \A o_ \in {"get_projects", "get_runs"} :
        (op = o_ /\ (InvalidName(entity) \/ (o_ = "get_runs" /\ InvalidName(project)))) =>
            /\ apiCalls = 0
            /\ attempt = 1
            /\ slept = 0
            /\ pc \in {"attempt", "done"}
            /\ (pc = "done" => result.kind = "raise" /\ result.exc = "ValidationError")

C8_Witness ==
    /\ op = "get_runs" /\ pc = "done"
    /\ entity = <<"a">> /\ project = <<"\t", " ">>
    /\ result.exc = "ValidationError" /\ apiCalls = 0

\* C9: extract_run_data either returns the projection of the handle or, when
\* some attribute of the handle (its id included) cannot be read, raises a
\* Validation error; nothing else escapes.
C9_TwoOutcomes ==
    (op = "extract_run_data" /\ pc = "done") =>
        IF run.unreadable = {}
        THEN /\ result.kind = "return"
             /\ result.value.metadata.id = run.id
             /\ result.value.summary = run.summary
             /\ result.value.config = run.config
        ELSE result.kind = "raise" /\ result.exc = "ValidationError"

\* the fetches of compare_runs that gave a handle with readable fields
Succeeded(i) == fetchTrace[i].kind = "return" /\ WellFormed(fetchTrace[i].value)

C11_EmptyMatrixEmptyLabels ==
    [][(cOp' = "fit_predict" /\ (features'.n = 0 \/ features'.cols = <<>>)) =>
          /\ cRes' = Return(<<>>)
          /\ model' = model]_vars

C11_Witness ==
    /\ cOp = "fit_predict" /\ method = "spectral"
    /\ features = [n |-> 0, cols |-> <<<<"accuracy">>>>, finite |-> TRUE]
    /\ cRes = Return(<<>>) /\ model = NoModel

\* C12: with the kmeans method and a numeric matrix of rowCount >= 1 rows, fit_predict
\* builds a model of min(n_clusters, rowCount) clusters and returns one label
\* per row, each in 0 .. min(n_clusters, rowCount) - 1.
C12_KMeansLabelRange ==
    (cOp = "fit_predict" /\ method = "kmeans" /\ features.n >= 1
        /\ features.cols # <<>> /\ features.finite) =>
        LET k == IF n_clusters <= features.n THEN n_clusters ELSE features.n
        IN /\ cRes.kind = "return"
           /\ model.kind = "KMeans"
           /\ model.n_clusters = k
           /\ Len(cRes.value) = features.n
           /\ \A i \in 1..Len(cRes.value) :
                 cRes.value[i].v >= 0 /\ cRes.value[i].v < k

C12_Witness ==
    /\ cOp = "fit_predict" /\ method = "kmeans"
    /\ n_clusters = 2 /\ features.n = 1 /\ features.finite
    /\ model.n_clusters = 1
    /\ cRes.kind = "return" /\ Len(cRes.value) = 1
    /\ cRes.value[1].v = 0

\* C13 as stated, on the calls that have samples to cluster: an engine built
\* with a method other than kmeans and dbscan exists, and each of its
\* fit_predict calls ends with a failure of the class ConfigurationError.
C13_UnknownMethodConfigurationError ==
    (/\ cOp = "fit_predict" /\ method \notin {"kmeans", "dbscan"}
     /\ features.n >= 1 /\ features.cols # <<>>) =>
        cRes.kind = "raise" /\ IsInstance(cRes.exc, {"ConfigurationError"})

\* a column some cell of which is not a number
NonNumeric(tbl, c) ==
    \E i \in 1..Len(tbl.rows) : tbl.rows[i][c].t \notin {"int", "int32", "float", "nan"}

\* the cases in which feature preparation has nothing to work on: none of the
\* listed columns exists, or no column is both numeric and outside the metadata
NoUsableColumn(tbl, mc) ==
    IF mc.given
    THEN \A i \in 1..Len(mc.cols) : mc.cols[i] \notin ColumnSet(tbl)
    ELSE \A c \in ColumnSet(tbl) : c \in ExcludeCols \/ NonNumeric(tbl, c)

\* C14: on a non-empty table for which feature preparation yields an empty
\* matrix, cluster_runs returns a table with the same rows in the same order,
\* every one of them labelled 0.
C14_FallbackSingleCluster ==
    (cOp = "cluster_runs" /\ ~IsEmpty(df0) /\ NoUsableColumn(df0, metric_cols)) =>
        /\ cRes.kind = "return"
        /\ Len(cRes.value.rows) = Len(df0.rows)
        /\ \A i \in 1..Len(df0.rows) :
              /\ ColCluster \in DOMAIN cRes.value.rows[i]
              /\ cRes.value.rows[i][ColCluster] = I(0)
              /\ \A c \in ColumnSet(df0) \ {ColCluster} :
                    cRes.value.rows[i][c] = df0.rows[i][c]

C14_Witness ==
    /\ cOp = "cluster_runs" /\ df0 = TableMetrics
    /\ metric_cols = Cols(<<<<"val_loss">>>>)
    /\ cRes.kind = "return" /\ Len(cRes.value.rows) = 3
    /\ \A i \in 1..3 : cRes.value.rows[i][ColCluster] = I(0)

\* the rows of a labelled table that carry a label, and the mean of one of
\* their columns as the fraction sum/count over the cells that are not NaN
RowsLabelled(tbl, id_) == {i \in 1..Len(tbl.rows) : tbl.rows[i][ColCluster].v = id_}
Counted(tbl, id_, col) == {i \in RowsLabelled(tbl, id_) : tbl.rows[i][col].t # "nan"}

RECURSIVE SumOver(_, _, _)
SumOver(tbl, col, is) ==
    IF is = {} THEN 0
    ELSE LET i == CHOOSE j \in is : TRUE
         IN tbl.rows[i][col].v + SumOver(tbl, col, is \ {i})

\* a float column of the table whose mean over the cluster is a number
HasMean(tbl, id_, col) ==
    /\ col \in ColumnSet(tbl)
    /\ \A i \in 1..Len(tbl.rows) : tbl.rows[i][col].t \in {"float", "nan"}
    /\ Counted(tbl, id_, col) # {}

\* lo <= mean <= hi, mean > thr, mean < thr (in ten-thousandths)
MeanWithin(tbl, id_, col, lo, hi) ==
    LET is == Counted(tbl, id_, col)
    IN /\ lo * Cardinality(is) <= SumOver(tbl, col, is)
       /\ SumOver(tbl, col, is) <= hi * Cardinality(is)

MeanAbove(tbl, id_, col, thr) ==
    LET is == Counted(tbl, id_, col)
    IN SumOver(tbl, col, is) > thr * Cardinality(is)

MeanBelow(tbl, id_, col, thr) ==
    LET is == Counted(tbl, id_, col)
    IN SumOver(tbl, col, is) < thr * Cardinality(is)

\* C15: a cluster whose accuracy mean is above 0.9 and whose loss mean is below
\* 0.1 gets a description that contains "High accuracy" and "Well converged",
\* whatever its other columns are.
C15_HighAccuracyWellConverged ==
    (cOp = "get_cluster_characteristics" /\ ColCluster \in ColumnSet(df0)) =>
        \A id_ \in {df0.rows[i][ColCluster].v : i \in 1..Len(df0.rows)} :
            (/\ HasMean(df0, id_, <<"accuracy">>)
             /\ HasMean(df0, id_, <<"loss">>)
             /\ MeanAbove(df0, id_, <<"accuracy">>, 9000)
             /\ MeanBelow(df0, id_, <<"loss">>, 1000)) =>
                /\ cRes.kind = "return"
                /\ id_ \in DOMAIN cRes.value
                /\ Contains(cRes.value[id_],
                            <<"H","i","g","h"," ","a","c","c","u","r","a","c","y">>)
                /\ Contains(cRes.value[id_],
                            <<"W","e","l","l"," ","c","o","n","v","e","r","g","e","d">>)

\* a cluster of two runs with a high learning rate besides
C15_Witness ==
    /\ cOp = "get_cluster_characteristics"
    /\ <<"config_", "learning_rate">> \in ColumnSet(df0)
    /\ RowsLabelled(df0, 1) = {1, 2}
    /\ MeanAbove(df0, 1, <<"accuracy">>, 9000)
    /\ MeanBelow(df0, 1, <<"loss">>, 1000)
    /\ cRes.kind = "return"
    /\ cRes.value[1] = <<"H","i","g","h"," ","a","c","c","u","r","a","c","y",",",
                         " ","W","e","l","l"," ","c","o","n","v","e","r","g","e",
                         "d",","," ","H","i","g","h"," ","l","e","a","r","n","i",
                         "n","g"," ","r","a","t","e">>

\* a column that is not among the cluster's stats, or whose mean lies in the
\* band in which no rule fires
AbsentOrNeutral(tbl, id_, col, lo, hi) ==
    \/ col \notin ColumnSet(tbl)
    \/ \E i \in 1..Len(tbl.rows) : tbl.rows[i][col].t \notin {"float", "nan", "int", "int32"}
    \/ HasMean(tbl, id_, col) /\ MeanWithin(tbl, id_, col, lo, hi)

\* C16: a cluster in which no rule fires (each of accuracy, loss,
\* config_learning_rate and learning_rate is absent from its stats or has its
\* mean in the neutral band) is described by exactly "Cluster " followed by its
\* id, the noise id -1 included.
C16_GenericLabel ==
    (cOp = "get_cluster_characteristics" /\ ColCluster \in ColumnSet(df0)) =>
        \A id_ \in {df0.rows[i][ColCluster].v : i \in 1..Len(df0.rows)} :
            (/\ AbsentOrNeutral(df0, id_, <<"accuracy">>, 7000, 9000)
             /\ AbsentOrNeutral(df0, id_, <<"loss">>, 1000, 5000)
             /\ AbsentOrNeutral(df0, id_, <<"config_", "learning_rate">>, 1, 100)
             /\ AbsentOrNeutral(df0, id_, <<"learning_rate">>, 1, 100)) =>
                /\ cRes.kind = "return"
                /\ id_ \in DOMAIN cRes.value
                /\ cRes.value[id_] =
                     <<"C","l","u","s","t","e","r"," ">>
                     \o (CASE id_ = -1 -> <<"-", "1">>
                           [] id_ = 0 -> <<"0">>
                           [] id_ = 1 -> <<"1">>
                           [] id_ = 2 -> <<"2">>
                           [] id_ = 3 -> <<"3">>)

\* the noise cluster holds the one run whose means are all neutral
C16_Witness ==
    /\ cOp = "get_cluster_characteristics"
    /\ <<"accuracy">> \in ColumnSet(df0) /\ <<"learning_rate">> \in ColumnSet(df0)
    /\ RowsLabelled(df0, -1) = {3}
    /\ cRes.kind = "return"
    /\ cRes.value[-1] = <<"C","l","u","s","t","e","r"," ","-","1">>

\* C17: for a labelled table with a name column, get_cluster_summary has one
\* entry per label present and no other; its size is the number of rows with
\* the label, its runs are their names in table order, and its stats have no
\* entry for the cluster column.
C17_SummaryPerLabel ==
    (/\ cOp = "get_cluster_summary"
     /\ ColCluster \in ColumnSet(df0) /\ <<"name">> \in ColumnSet(df0)) =>
        /\ cRes.kind = "return"
        /\ DOMAIN cRes.value = {df0.rows[i][ColCluster].v : i \in 1..Len(df0.rows)}
        /\ \A id_ \in DOMAIN cRes.value :
              LET mine == SelectSeq(df0.rows, LAMBDA r : r[ColCluster].v = id_)
              IN /\ cRes.value[id_].size = Cardinality(RowsLabelled(df0, id_))
                 /\ Len(cRes.value[id_].runs) = Len(mine)
                 /\ \A k \in 1..Len(mine) :
                       cRes.value[id_].runs[k] = mine[k][<<"name">>]
                 /\ ColCluster \notin DOMAIN cRes.value[id_].stats

\* labels 1, 0, 1, -1: the runs of cluster 1 are the first and the third
C17_Witness ==
    /\ cOp = "get_cluster_summary"
    /\ Len(df0.rows) = 4 /\ <<"runtime">> \in ColumnSet(df0)
    /\ cRes.kind = "return" /\ DOMAIN cRes.value = {-1, 0, 1}
    /\ cRes.value[1].size = 2 /\ cRes.value[1].runs = <<S(11), S(13)>>
    /\ cRes.value[0].runs = <<S(12)>> /\ cRes.value[-1].runs = <<S(14)>>
    /\ DOMAIN cRes.value[1].stats = {<<"runtime">>}

\* C20: on an empty run table no stage raises and each returns its empty
\* value: cluster_runs the table itself, prepare_features an empty matrix,
\* fit_predict on an empty matrix an empty label sequence, get_cluster_summary
\* and get_cluster_characteristics an empty mapping (also on a table without a
\* cluster column), reduce_dimensions on an empty matrix the matrix itself.
C20_EmptyPipeline ==
    /\ (cOp = "cluster_runs" /\ (df0.rows = <<>> \/ df0.columns = <<>>)) =>
            cRes = Return(df0) /\ df = df0
    /\ (cOp = "prepare_features" /\ (df0.rows = <<>> \/ df0.columns = <<>>)) =>
            cRes = Return([n |-> 0, cols |-> <<>>, finite |-> TRUE])
    /\ (cOp = "fit_predict" /\ (features.n = 0 \/ features.cols = <<>>)) =>
            cRes = Return(<<>>)
    /\ (/\ cOp \in {"get_cluster_summary", "get_cluster_characteristics"}
        /\ \/ df0.rows = <<>> \/ df0.columns = <<>>
           \/ \A i \in 1..Len(df0.columns) : df0.columns[i] # <<"cluster">>) =>
            cRes.kind = "return" /\ DOMAIN cRes.value = {}
    /\ (cOp = "reduce_dimensions" /\ (features.n = 0 \/ features.cols = <<>>)) =>
            cRes = Return(features)

\* the last stage of the pipeline on the table without rows and columns, after
\* a call of cluster_runs left state behind in an engine
C20_Witness ==
    /\ cOp = "get_cluster_characteristics"
    /\ df0 = [columns |-> <<>>, rows |-> <<>>]
    /\ model # NoModel
    /\ cRes.kind = "return" /\ DOMAIN cRes.value = {}

\* C18 as stated: none of the four public operations of the analysis adapter
\* raises to its caller; a failure while the request is built, while the
\* service is called or while its response is parsed ends in a returned value.
C18_AdapterNeverRaises ==
    (/\ aOp \in {"analyze_experiment_cluster", "compare_runs",
                 "suggest_experiments", "analyze_code_changes"}
     /\ aPc = "idle") => aRes.kind = "return"

\* C19 as stated: every call that goes out to the network (a listing call or a
\* single-run fetch of the remote data client, a messages.create call of the
\* analysis adapter) comes after an admission by a rate limiter, so the calls
\* made never outnumber the admissions recorded.
C19_AdmissionBeforeCall ==
    /\ apiCalls + Len(fetchTrace) <= admitted.wandb_rate_limit + admitted.general_rate_limit
    /\ aCalls <= admitted.anthropic_rate_limit + admitted.general_rate_limit

\* the failures into which the listing operations classify a remote error
ClassifiedFailures ==
    {"WandBConnectionError", "WandBAuthenticationError", "WandBRateLimitError",
     "WandBProjectNotFoundError"}

\* the remote call raised ConnectionError, TimeoutError or a subclass of them
Retriable(o) ==
    o.kind = "raise"
    /\ o.exc \in {"ConnectionError", "TimeoutError", "ConnectionResetError"}

\* C21 as stated: a listing operation raises a classified failure only when
\* its three attempts have been used.
C21_ClassifiedOnlyAfterBudget ==
    \A o_ \in {"get_projects", "get_runs"} :
        (ListingDone(o_) /\ result.kind = "raise"
            /\ result.exc \in ClassifiedFailures) => apiCalls = 3

\* C21, amended: a classified failure is raised by the attempt whose remote
\* call raised an error other than ConnectionError/TimeoutError, be it the
\* first, the second or the third, and every attempt before it ended in such a
\* transient error; the three attempts are used up only by transient errors,
\* and then the last of them reaches the caller unclassified.
C21_ClassifiedOnFailingAttempt ==
    \A o_ \in {"get_projects", "get_runs"} :
        /\ (ListingDone(o_) /\ result.kind = "raise"
               /\ result.exc \in ClassifiedFailures) =>
              /\ apiCalls \in 1..3 /\ apiCalls = Len(trace) /\ attempt = apiCalls
              /\ Last(trace).kind = "raise" /\ ~Retriable(Last(trace))
              /\ \A i \in 1..(Len(trace) - 1) : Retriable(trace[i])
        /\ (ListingDone(o_) /\ result.kind = "raise"
               /\ result.exc \notin ClassifiedFailures) =>
              /\ apiCalls = 3 /\ Retriable(Last(trace)) /\ result = Last(trace)

\* an authentication failure raised by the first attempt
C21_Witness ==
    /\ ListingDone("get_projects") /\ apiCalls = 1 /\ attempt = 1
    /\ trace = <<Raise("Exception", MsgUnauthorized)>>
    /\ result.kind = "raise" /\ result.exc = "WandBAuthenticationError"

\* C22: an attempt of a listing call is followed by another one only when its
\* remote call raised ConnectionError/TimeoutError; an attempt that succeeds
\* or raises another error is the last, so such an error on attempt k ends the
\* call with its classified failure after exactly k remote calls.
C22_OnlyTransientRetried ==
    [][(pc = "attempt" /\ op \in {"get_projects", "get_runs"} /\ trace' # trace) =>
          LET o == Last(trace')
          IN /\ apiCalls' = attempt
             /\ (pc' = "wait") => Retriable(o)
             /\ (o.kind = "return") => (pc' = "done" /\ result' = Return(o.value))
             /\ (o.kind = "raise" /\ ~Retriable(o)) =>
                   /\ pc' = "done" /\ result'.kind = "raise"
                   /\ result'.exc \in ClassifiedFailures]_vars

\* a server error on the second attempt
C22_Witness ==
    /\ ListingDone("get_runs") /\ apiCalls = 2 /\ attempt = 2
    /\ trace = <<Raise("TimeoutError", MsgNetworkError),
                 Raise("OSError", MsgNetworkError)>>
    /\ result.kind = "raise" /\ result.exc = "WandBConnectionError"

\* C23 as stated: compare_runs fetches each run id once, whatever the fetch
\* raises, and get_runs_dataframe, once the listing has returned, finishes
\* without another listing call, a run whose extraction fails being skipped:
\* the table is returned with a row for each of the other runs.
C23_SingleRunWorkNotRetried ==
    [][/\ (pc = "rows") =>
             /\ pc' = "done" /\ apiCalls' = apiCalls /\ trace' = trace
             /\ attempt' = attempt /\ slept' = slept
             /\ result'.kind = "return"
             /\ Len(result'.value.rows) =
                    Cardinality({i \in 1..Len(runs) : runs[i].unreadable = {}})
       /\ (pc = "compare") =>
             /\ Len(fetchTrace') = idx /\ apiCalls' = apiCalls
             /\ (pc' = "done" /\ idx = Len(run_ids)) \/ (pc' = "compare" /\ idx' = idx + 1)
      ]_vars

\* the two states of the engine: no model, and a model fitted on some matrix
Uninitialized(m) == m.kind = "None"
Fitted(m) == m.kind \in {"KMeans", "DBSCAN"} /\ m.fit_on.n >= 1 /\ m.fit_on.cols # <<>>

\* C24 as stated: the engine starts without a model; a fit_predict call makes
\* it Fitted, on a fresh model built from that call's matrix, exactly when
\* the matrix is non-empty, the method is supported and the call returns;
\* every other fit_predict call (empty matrix, failure) leaves the model as
\* it was; and no call of any operation takes a Fitted engine out of Fitted.
C24_TwoStateMachine ==
    /\ Uninitialized(model)
    /\ [][/\ Fitted(model) => Fitted(model')
          /\ (cOp' = "fit_predict") =>
                IF /\ features'.n >= 1 /\ features'.cols # <<>>
                   /\ method \in {"kmeans", "dbscan"} /\ cRes'.kind = "return"
                THEN Fitted(model') /\ model'.fit_on = features'
                ELSE model' = model]_vars


\* C25 as stated: a get_runs call that returns hands back at most limit run
\* handles, the first ones of the project in the order of the service.
C25_AtMostLimit ==
    (op = "get_runs" /\ pc = "done" /\ result.kind = "return") =>
        LET held == Last(trace).value
        IN /\ Len(result.value) <= limit
           /\ result.value = SubSeq(held, 1, IF Len(held) <= limit THEN Len(held) ELSE limit)


\* C26 as stated: a table returned by get_runs_dataframe has one row per run
\* whose attributes could be read, and in each row the columns id, name,
\* state, created_at and runtime hold what the run handle itself says (the
\* runtime being the _runtime entry of its summary, or 0).
C26_MetadataColumnsKept ==
    (op = "get_runs_dataframe" /\ pc = "done" /\ result.kind = "return") =>
        LET ok == SelectSeq(runs, LAMBDA r : r.unreadable = {})
            rows == result.value.rows
        IN /\ Len(rows) = Len(ok)
           /\ \A i \in 1..Len(rows) :
                 /\ {<<"id">>, <<"name">>, <<"state">>, <<"created_at">>,
                     <<"runtime">>} \subseteq DOMAIN rows[i]
                 /\ rows[i][<<"id">>] = ok[i].id
                 /\ rows[i][<<"name">>] = ok[i].name
                 /\ rows[i][<<"state">>] = ok[i].state
                 /\ rows[i][<<"created_at">>] = ok[i].created_at
                 /\ rows[i][<<"runtime">>] =
                        IF <<"_", "runtime">> \in DOMAIN ok[i].summary
                        THEN ok[i].summary[<<"_", "runtime">>]
                        ELSE [t |-> "int", v |-> 0]


\* admissions whose timestamp lies less than time_window before now
AdmittedInWindow == Cardinality({i \in 1..Len(log) : log[i] < time_window})

\* C27 as stated: whatever the interleaving, the admissions that lie within
\* one window of length time_window (here the window that ends now, the
\* admission exactly time_window ago left out) never outnumber max_calls.
C27_AtMostMaxCallsPerWindow == AdmittedInWindow <= max_calls


C29_FeatureNamesOfLastCall ==
    (cOp = "prepare_features" /\ cRes.kind = "return") =>
        /\ feature_names = cRes.value.cols
        /\ (cRes.value.n = 0 \/ cRes.value.cols = <<>>) => feature_names = <<>>


\* the columns of a labelled table that the first call had to choose from:
\* those that hold numbers only, outside the metadata and the label column
FeaturesOfUnlabelled(tbl) ==
    SelectSeq(tbl.columns,
              LAMBDA c : /\ c # <<"cluster">>
                         /\ c \notin {<<"id">>, <<"name">>, <<"state">>,
                                      <<"created_at">>, <<"runtime">>,
                                      <<"commit">>, <<"tags">>}
                         /\ ~NonNumeric(tbl, c))

\* C30 as stated, for the choice of columns: cluster_runs without a column
\* list on a table that cluster_runs, called without a column list, returned
\* uses the columns the first call had to choose from, never the label
\* column; when there is none it labels every run 0 again.
C30_ReclusterSameFeatures ==
    [][(/\ cOp = "cluster_runs" /\ cRes.kind = "return" /\ cSame
        /\ metric_cols = [given |-> FALSE, cols |-> <<>>]
        /\ cOp' = "cluster_runs" /\ metric_cols' = metric_cols /\ df0' = df
        /\ df.rows # <<>>
        /\ \E i \in 1..Len(df.columns) : df.columns[i] = <<"cluster">>) =>
            /\ cRes'.kind = "return"
            /\ IF FeaturesOfUnlabelled(df) = <<>>
               THEN cSame' /\ \A i \in 1..Len(cRes'.value.rows) :
                                 cRes'.value.rows[i][<<"cluster">>].v = 0
               ELSE feature_names' = FeaturesOfUnlabelled(df)]_vars

====
